---- MODULE Spec2Model ----
(***************************************************************************)
(* Model of the embedded static-asset handler of sgsr (static_embed.go):   *)
(* registration (option normalisation, preload, representation builder)    *)
(* and request-time serving (path resolution, Accept-Encoding parsing,     *)
(* negotiation, response writing), and of the controller (NewApp and       *)
(* App.Run with its listener goroutine and graceful shutdown).             *)
(*                                                                         *)
(* Representation.                                                         *)
(*  - A string is a sequence of atoms; an atom is a TLA+ string standing   *)
(*    for one or more characters ("/", "\\", ".", "docs", "index.html").   *)
(*    Name atoms contain no separator and are not made of dots only.       *)
(*  - A byte slice is a sequence of naturals.                              *)
(*  - A float64 q-value is an integer number of tenths (1.0 is 10, 0.4 is  *)
(*    4); NaN is a sentinel with IEEE comparison rules (every ordered      *)
(*    comparison with NaN is false).                                       *)
(*  - An Accept-Encoding header value is the sequence of its comma         *)
(*    separated parts; a part is its text before the first ";" and the     *)
(*    sequence of its ";" separated parameters.                            *)
(***************************************************************************)
EXTENDS Integers, Sequences, FiniteSets, TLC

VARIABLES router, handler, regResult, request, response, call

vars == <<router, handler, regResult, request, response, call>>

(***************************************************************************)
(* Bounds of the model.                                                    *)
(***************************************************************************)
MaxParts == 2

MaxFileLen == 6

MaxPathLen == 4

MaxEncLen == 2

(***************************************************************************)
(* Generic helpers.                                                        *)
(***************************************************************************)
RECURSIVE SeqsUpTo(_, _)
SeqsUpTo(S, n) ==
  IF n = 0 THEN {<<>>}
  ELSE LET shorter == SeqsUpTo(S, n - 1)
       IN shorter \cup {Append(s, x) : s \in {t \in shorter : Len(t) = n - 1}, x \in S}

Range(s) == {s[i] : i \in 1..Len(s)}

(***************************************************************************)
(* Content codings (static_embed.go, const block and default order).       *)
(***************************************************************************)
ContentEncodingIdentity == "identity"

ContentEncodingGzip == "gzip"

ContentEncodingDeflate == "deflate"

ContentEncodingBrotli == "br"

ContentEncodingZstd == "zstd"

defaultStaticEncodings ==
  <<ContentEncodingZstd, ContentEncodingBrotli, ContentEncodingGzip,
    ContentEncodingDeflate, ContentEncodingIdentity>>

Codings == Range(defaultStaticEncodings)

(***************************************************************************)
(* float64 values: tenths, with NaN.                                       *)
(***************************************************************************)
NaN == 999

FLt(a, b) == a # NaN /\ b # NaN /\ a < b

FGt(a, b) == a # NaN /\ b # NaN /\ a > b

FLe(a, b) == a # NaN /\ b # NaN /\ a <= b

FEq(a, b) == a # NaN /\ b # NaN /\ a = b

(***************************************************************************)
(* strings.TrimSpace and strings.ToLower on the name atoms of the model.   *)
(***************************************************************************)
TrimSpace(s) ==
  CASE s = " " -> ""
    [] s = " gzip " -> "gzip"
    [] OTHER -> s

ToLower(s) ==
  CASE s = "GZIP" -> "gzip"
    [] s = "Identity" -> "identity"
    [] s = "X-Gzip" -> "x-gzip"
    [] s = "Q" -> "q"
    [] OTHER -> s

\* canonicalEncoding: [ok, enc]; ok = FALSE is the "unsupported encoding" error.
canonicalEncoding(encoding) ==
  LET value == ToLower(TrimSpace(encoding))
  IN CASE value = ContentEncodingIdentity -> [ok |-> TRUE, enc |-> ContentEncodingIdentity]
       [] value \in {ContentEncodingGzip, "x-gzip"} -> [ok |-> TRUE, enc |-> ContentEncodingGzip]
       [] value \in {ContentEncodingDeflate, "x-deflate"} -> [ok |-> TRUE, enc |-> ContentEncodingDeflate]
       [] value = ContentEncodingBrotli -> [ok |-> TRUE, enc |-> ContentEncodingBrotli]
       [] value = ContentEncodingZstd -> [ok |-> TRUE, enc |-> ContentEncodingZstd]
       [] OTHER -> [ok |-> FALSE, enc |-> ""]

(***************************************************************************)
(* Accept-Encoding values.                                                 *)
(*   part  = [name, params]; params is the list of the texts after each    *)
(*           ";" of the part.                                              *)
(*   param = [key, eq, val]: the text before "=", whether "=" occurs, and  *)
(*           what strconv.ParseFloat makes of the text after it:           *)
(*           [ok, f] with f in tenths (or NaN; +Inf and -Inf are any       *)
(*           value above 10 and below 0).                                  *)
(* strings.Split never returns an empty list: the empty header is the one  *)
(* part with an empty name and no parameter.                               *)
(***************************************************************************)
Part(name, params) == [name |-> name, params |-> params]

QParam(f) == [key |-> "q", eq |-> TRUE, val |-> [ok |-> TRUE, f |-> f]]

EmptyHeader == <<Part("", <<>>)>>

\* strings.TrimSpace(header) == ""
HeaderIsBlank(header) ==
  /\ Len(header) = 1
  /\ TrimSpace(header[1].name) = ""
  /\ header[1].params = <<>>

\* The switch that clamps a parsed q into [0,1].
clampQ(parsedQ) ==
  CASE FLt(parsedQ, 0) -> 0
    [] FGt(parsedQ, 10) -> 10
    [] OTHER -> parsedQ

\* One iteration of the loop over the parameters of a token.
paramStep(q, param) ==
  IF ~param.eq THEN q
  ELSE IF ToLower(TrimSpace(param.key)) # "q" THEN q
  ELSE IF ~param.val.ok THEN q
  ELSE clampQ(param.val.f)

RECURSIVE paramsQ(_, _, _)
paramsQ(params, i, q) ==
  IF i > Len(params) THEN q
  ELSE paramsQ(params, i + 1, paramStep(q, params[i]))

\* q of one token: 1.0 unless a parameter sets it.
tokenQ(part) == paramsQ(part.params, 1, 10)

\* Variant: a token that names no known coding is taken for "*".
partStepUnknownIsAny(specs, part) ==
  IF TrimSpace(part.name) = "" /\ part.params = <<>> THEN specs
  ELSE LET name == ToLower(TrimSpace(part.name))
           q == tokenQ(part)
           canonical == canonicalEncoding(name)
       IN IF name = "*" \/ ~canonical.ok
          THEN [specs EXCEPT !.wildcard = q, !.hasAny = TRUE]
          ELSE [specs EXCEPT !.declared =
                  [e \in (DOMAIN specs.declared) \cup {canonical.enc} |->
                     IF e = canonical.enc THEN q ELSE specs.declared[e]]]

\* One iteration of the loop over the parts of the header.
partStep(specs, part) ==
  IF TrimSpace(part.name) = "" /\ part.params = <<>> THEN specs
  ELSE LET name == ToLower(TrimSpace(part.name))
           q == tokenQ(part)
           canonical == canonicalEncoding(name)
       IN IF name = "*"
          THEN [specs EXCEPT !.wildcard = q, !.hasAny = TRUE]
          ELSE IF ~canonical.ok THEN specs
          ELSE [specs EXCEPT !.declared =
                  [e \in (DOMAIN specs.declared) \cup {canonical.enc} |->
                     IF e = canonical.enc THEN q ELSE specs.declared[e]]]

RECURSIVE parseParts(_, _, _)
parseParts(header, i, specs) ==
  IF i > Len(header) THEN specs
  ELSE parseParts(header, i + 1, partStep(specs, header[i]))

EmptyDeclared == [e \in {} |-> 0]

\* Variant: an absent header is parsed like "*".
parseAcceptEncodingAbsentIsAny(header) ==
  LET specs == [declared |-> EmptyDeclared, wildcard |-> 0,
                hasValue |-> ~HeaderIsBlank(header), hasAny |-> FALSE]
  IN IF HeaderIsBlank(header)
     THEN [specs EXCEPT !.hasValue = TRUE, !.hasAny = TRUE, !.wildcard = 10]
     ELSE parseParts(header, 1, specs)

parseAcceptEncoding(header) ==
  LET specs == [declared |-> EmptyDeclared, wildcard |-> 0,
                hasValue |-> ~HeaderIsBlank(header), hasAny |-> FALSE]
  IN IF HeaderIsBlank(header) THEN specs
     ELSE parseParts(header, 1, specs)

hasDeclared(a, encoding) == encoding \in DOMAIN a.declared

\* Variant: a wildcard of q = 0 does not ban an undeclared identity.
qValueForNoBan(a, encoding) ==
  IF ~a.hasValue
  THEN (IF encoding = ContentEncodingIdentity THEN 10 ELSE 0)
  ELSE IF encoding \in DOMAIN a.declared THEN a.declared[encoding]
  ELSE IF encoding = ContentEncodingIdentity THEN 10
  ELSE IF a.hasAny THEN a.wildcard
  ELSE 0

qValueFor(a, encoding) ==
  IF ~a.hasValue
  THEN (IF encoding = ContentEncodingIdentity THEN 10 ELSE 0)
  ELSE IF encoding \in DOMAIN a.declared THEN a.declared[encoding]
  ELSE IF encoding = ContentEncodingIdentity
       THEN (IF a.hasAny /\ FEq(a.wildcard, 0) THEN 0 ELSE 10)
  ELSE IF a.hasAny THEN a.wildcard
  ELSE 0

(***************************************************************************)
(* negotiateEncoding.  variants is a function from codings to byte slices. *)
(***************************************************************************)
\* Variant: a coding of equal q replaces the best one (">=" for ">").
betterThanBestOrEqual(q, bestQ) == q # NaN /\ bestQ # NaN /\ q >= bestQ

\* The comparison that replaces the best compressed coding found so far.
betterThanBest(q, bestQ) == FGt(q, bestQ)

\* One iteration of the loop over the server preference list.
scanStep(best, encoding, specs, variants) ==
  IF encoding = ContentEncodingIdentity THEN best
  ELSE IF encoding \notin DOMAIN variants THEN best
  ELSE LET q == qValueFor(specs, encoding)
       IN IF FLe(q, 0) THEN best
          ELSE IF betterThanBest(q, best.bestQ)
               THEN [bestQ |-> q, bestEncoding |-> encoding]
               ELSE best

RECURSIVE scanPreferred(_, _, _, _, _)
scanPreferred(preferred, i, best, specs, variants) ==
  IF i > Len(preferred) THEN best
  ELSE scanPreferred(preferred, i + 1,
                     scanStep(best, preferred[i], specs, variants), specs, variants)

\* Variant: a declared identity overrides on a tie as well (">=" for ">").
identityOverridesOnTie(specs, identityQ, bestQ) ==
  /\ hasDeclared(specs, ContentEncodingIdentity)
  /\ identityQ # NaN /\ bestQ # NaN /\ identityQ >= bestQ

\* Variant: the override does not ask whether identity was declared.
identityOverridesUndeclared(specs, identityQ, bestQ) == FGt(identityQ, bestQ)

\* The test of the explicit-identity override.
identityOverrides(specs, identityQ, bestQ) ==
  hasDeclared(specs, ContentEncodingIdentity) /\ FGt(identityQ, bestQ)

negotiateEncoding(header, preferred, variants) ==
  IF Len(preferred) = 0 \/ DOMAIN variants = {}
  THEN [encoding |-> "", ok |-> FALSE]
  ELSE LET specs == parseAcceptEncoding(header)
           best == scanPreferred(preferred, 1, [bestQ |-> -10, bestEncoding |-> ""],
                                 specs, variants)
           identityQ == qValueFor(specs, ContentEncodingIdentity)
       IN IF /\ identityOverrides(specs, identityQ, best.bestQ)
             /\ ContentEncodingIdentity \in DOMAIN variants
             /\ FGt(identityQ, 0)
          THEN [encoding |-> ContentEncodingIdentity, ok |-> TRUE]
          ELSE IF best.bestEncoding # "" THEN [encoding |-> best.bestEncoding, ok |-> TRUE]
          ELSE IF FLe(identityQ, 0) THEN [encoding |-> "", ok |-> FALSE]
          ELSE IF ContentEncodingIdentity \notin DOMAIN variants
               THEN [encoding |-> "", ok |-> FALSE]
          ELSE [encoding |-> ContentEncodingIdentity, ok |-> TRUE]

(***************************************************************************)
(* Compressors.  The codecs are libraries; what the handler relies on is   *)
(* that each is a lossless framed encoding whose output may be longer than *)
(* its input.  The model's codecs frame a run-length payload: a magic      *)
(* byte, the (count, byte) pairs of the runs, and a per-codec trailer.     *)
(***************************************************************************)
RECURSIVE runLength(_, _)
runLength(raw, i) ==
  IF i >= Len(raw) \/ raw[i + 1] # raw[i] THEN 1
  ELSE 1 + runLength(raw, i + 1)

RECURSIVE rlEncode(_, _)
rlEncode(raw, i) ==
  IF i > Len(raw) THEN <<>>
  ELSE LET n == runLength(raw, i)
       IN <<n, raw[i]>> \o rlEncode(raw, i + n)

RECURSIVE rlDecode(_, _)
rlDecode(data, i) ==
  IF i + 1 > Len(data) THEN <<>>
  ELSE [k \in 1..data[i] |-> data[i + 1]] \o rlDecode(data, i + 2)

magic(encoding) ==
  CASE encoding = ContentEncodingGzip -> 31
    [] encoding = ContentEncodingZstd -> 40
    [] encoding = ContentEncodingBrotli -> 11
    [] encoding = ContentEncodingDeflate -> 120

trailer(encoding, raw) ==
  CASE encoding = ContentEncodingGzip -> <<Len(raw), 0>>
    [] encoding = ContentEncodingZstd -> <<Len(raw)>>
    [] encoding = ContentEncodingBrotli -> <<>>
    [] encoding = ContentEncodingDeflate -> <<>>

compressGzip(raw) ==
  <<magic(ContentEncodingGzip)>> \o rlEncode(raw, 1) \o trailer(ContentEncodingGzip, raw)

compressDeflate(raw) ==
  <<magic(ContentEncodingDeflate)>> \o rlEncode(raw, 1) \o trailer(ContentEncodingDeflate, raw)

compressBrotli(raw) ==
  <<magic(ContentEncodingBrotli)>> \o rlEncode(raw, 1) \o trailer(ContentEncodingBrotli, raw)

compressZstd(raw) ==
  <<magic(ContentEncodingZstd)>> \o rlEncode(raw, 1) \o trailer(ContentEncodingZstd, raw)

\* prepareCompressors: the table from coding to compressor (zstd only when enabled).
prepareCompressors(encodings) ==
  [e \in {ContentEncodingGzip, ContentEncodingDeflate, ContentEncodingBrotli}
         \cup ({ContentEncodingZstd} \cap Range(encodings)) |->
     CASE e = ContentEncodingGzip -> "compressGzip"
       [] e = ContentEncodingDeflate -> "compressDeflate"
       [] e = ContentEncodingBrotli -> "compressBrotli"
       [] e = ContentEncodingZstd -> "compressZstd"]

compress(fn, raw) ==
  CASE fn = "compressGzip" -> compressGzip(raw)
    [] fn = "compressDeflate" -> compressDeflate(raw)
    [] fn = "compressBrotli" -> compressBrotli(raw)
    [] fn = "compressZstd" -> compressZstd(raw)

\* decompressBody of the tests: "" is the absent Content-Encoding header.
decompressBody(encoding, data) ==
  IF encoding = "" THEN [ok |-> TRUE, data |-> data]
  ELSE IF encoding \notin Codings \ {ContentEncodingIdentity}
       THEN [ok |-> FALSE, data |-> <<>>]
  ELSE IF Len(data) = 0 \/ data[1] # magic(encoding)
       THEN [ok |-> FALSE, data |-> <<>>]
  ELSE LET tl == IF encoding = ContentEncodingGzip THEN 2
                 ELSE IF encoding = ContentEncodingZstd THEN 1 ELSE 0
           payload == SubSeq(data, 2, Len(data) - tl)
       IN [ok |-> TRUE, data |-> rlDecode(payload, 1)]

(***************************************************************************)
(* buildAsset.                                                             *)
(***************************************************************************)
\* Variant: a compressed output as long as the raw file is kept (">" for ">=").
ineffectiveOnlyIfLonger(compressed, raw) == Len(compressed) > Len(raw)

\* The test that drops a compressed variant.
ineffective(compressed, raw) == Len(compressed) >= Len(raw)

\* path.Ext of the name atoms of the model, and mime.TypeByExtension.
pathExt(file) ==
  LET last == IF Len(file) = 0 THEN "" ELSE file[Len(file)]
  IN CASE last \in {"index.html"} -> ".html"
       [] last \in {"home.htm"} -> ".htm"
       [] last \in {"a.txt", "r.txt"} -> ".txt"
       [] OTHER -> ""

TypeByExtension(ext) ==
  CASE ext \in {".html", ".htm"} -> "text/html; charset=utf-8"
    [] ext = ".txt" -> "text/plain; charset=utf-8"
    [] OTHER -> ""

\* http.DetectContentType never returns the empty string.
DetectContentType(raw) ==
  IF \A i \in 1..Len(raw) : raw[i] >= 32
  THEN "text/plain; charset=utf-8"
  ELSE "application/octet-stream"

\* Variant: a variant is built for every coding that has a compressor,
\* listed or not.
keptEncodingsOfAllCompressors(raw, encodings, compressors) ==
  {e \in DOMAIN compressors : ~ineffective(compress(compressors[e], raw), raw)}

\* The set of codings of the list whose compressed output is kept.
keptEncodings(raw, encodings, compressors) ==
  {e \in Range(encodings) \ {ContentEncodingIdentity} :
     ~ineffective(compress(compressors[e], raw), raw)}

\* buildAsset: [ok, asset]; ok = FALSE when a coding of the list has no compressor.
buildAsset(raw, file, encodings, compressors) ==
  IF \E e \in Range(encodings) \ {ContentEncodingIdentity} : e \notin DOMAIN compressors
  THEN [ok |-> FALSE, asset |-> [contentType |-> "", variants |-> EmptyDeclared]]
  ELSE LET kept == keptEncodings(raw, encodings, compressors)
           byExt == TypeByExtension(pathExt(file))
       IN [ok |-> TRUE,
           asset |-> [contentType |-> IF byExt = "" THEN DetectContentType(raw) ELSE byExt,
                      variants |-> [e \in kept \cup {ContentEncodingIdentity} |->
                                      IF e = ContentEncodingIdentity THEN raw
                                      ELSE compress(compressors[e], raw)]]]

(***************************************************************************)
(* normalizeEncodingOrder: [ok, list, err].                                *)
(***************************************************************************)
\* Variant: an unknown coding is skipped instead of failing the list.
RECURSIVE normalizeLoopSkippingUnknown(_, _, _)
normalizeLoopSkippingUnknown(encodings, i, normalized) ==
  IF i > Len(encodings) THEN [ok |-> TRUE, list |-> normalized, err |-> ""]
  ELSE LET c == canonicalEncoding(encodings[i])
       IN IF ~c.ok \/ c.enc \in Range(normalized)
          THEN normalizeLoopSkippingUnknown(encodings, i + 1, normalized)
          ELSE normalizeLoopSkippingUnknown(encodings, i + 1, Append(normalized, c.enc))

RECURSIVE normalizeLoop(_, _, _)
normalizeLoop(encodings, i, normalized) ==
  IF i > Len(encodings) THEN [ok |-> TRUE, list |-> normalized, err |-> ""]
  ELSE LET c == canonicalEncoding(encodings[i])
       IN IF ~c.ok
          THEN [ok |-> FALSE, list |-> <<>>, err |-> "unsupported encoding"]
          ELSE IF c.enc \in Range(normalized)
               THEN normalizeLoop(encodings, i + 1, normalized)
               ELSE normalizeLoop(encodings, i + 1, Append(normalized, c.enc))

\* Variant: identity is appended whether or not it was listed.
normalizeEncodingOrderAlwaysAppending(encodings) ==
  LET r == normalizeLoop(encodings, 1, <<>>)
  IN IF ~r.ok THEN r
     ELSE IF Len(r.list) = 0
          THEN [ok |-> FALSE, list |-> <<>>, err |-> "encodings cannot be empty"]
     ELSE [r EXCEPT !.list = Append(r.list, ContentEncodingIdentity)]

normalizeEncodingOrder(encodings) ==
  LET r == normalizeLoop(encodings, 1, <<>>)
  IN IF ~r.ok THEN r
     ELSE IF Len(r.list) = 0
          THEN [ok |-> FALSE, list |-> <<>>, err |-> "encodings cannot be empty"]
     ELSE IF ContentEncodingIdentity \notin Range(r.list)
          THEN [r EXCEPT !.list = Append(r.list, ContentEncodingIdentity)]
     ELSE r


(***************************************************************************)
(* Strings of atoms: the string functions the handler uses.                *)
(***************************************************************************)
\* filepathToURLPath: strings.ReplaceAll(value, "\\", "/").
filepathToURLPath(value) ==
  [i \in 1..Len(value) |-> IF value[i] = "\\" THEN "/" ELSE value[i]]

HasPrefix(s, p) == Len(s) >= Len(p) /\ SubSeq(s, 1, Len(p)) = p

TrimPrefix(s, p) == IF HasPrefix(s, p) THEN SubSeq(s, Len(p) + 1, Len(s)) ELSE s

\* strings.TrimSpace on a string of atoms: leading and trailing " " atoms go.
RECURSIVE TrimSpaceStr(_)
TrimSpaceStr(s) ==
  IF Len(s) = 0 THEN s
  ELSE IF s[1] = " " THEN TrimSpaceStr(Tail(s))
  ELSE IF s[Len(s)] = " " THEN TrimSpaceStr(SubSeq(s, 1, Len(s) - 1))
  ELSE s

\* The "/"-separated elements of a string, empty ones included.
RECURSIVE splitSlash(_, _, _)
splitSlash(s, i, cur) ==
  IF i > Len(s) THEN <<cur>>
  ELSE IF s[i] = "/" THEN <<cur>> \o splitSlash(s, i + 1, <<>>)
  ELSE splitSlash(s, i + 1, Append(cur, s[i]))

RECURSIVE joinSlash(_)
joinSlash(segs) ==
  IF Len(segs) = 0 THEN <<>>
  ELSE IF Len(segs) = 1 THEN segs[1]
  ELSE segs[1] \o <<"/">> \o joinSlash(Tail(segs))

\* path.Clean's treatment of one element, out being the elements kept so far.
cleanStep(out, seg, rooted) ==
  IF seg = <<>> \/ seg = <<".">> THEN out
  ELSE IF seg = <<".", ".">>
       THEN IF Len(out) > 0 /\ out[Len(out)] # <<".", ".">>
            THEN SubSeq(out, 1, Len(out) - 1)
            ELSE IF rooted THEN out ELSE Append(out, seg)
  ELSE Append(out, seg)

RECURSIVE cleanLoop(_, _, _, _)
cleanLoop(segs, i, out, rooted) ==
  IF i > Len(segs) THEN out
  ELSE cleanLoop(segs, i + 1, cleanStep(out, segs[i], rooted), rooted)

\* path.Clean.
pathClean(p) ==
  IF Len(p) = 0 THEN <<".">>
  ELSE LET rooted == p[1] = "/"
           out == cleanLoop(splitSlash(p, 1, <<>>), 1, <<>>, rooted)
       IN IF rooted THEN <<"/">> \o joinSlash(out)
          ELSE IF Len(out) = 0 THEN <<".">> ELSE joinSlash(out)

\* path.Join of two elements: empty elements are ignored, the result is cleaned.
pathJoin(a, b) ==
  IF Len(a) = 0 /\ Len(b) = 0 THEN <<>>
  ELSE IF Len(a) = 0 THEN pathClean(b)
  ELSE IF Len(b) = 0 THEN pathClean(a)
  ELSE pathClean(a \o <<"/">> \o b)

\* The catalog key of a walked file.
assetKey(file) ==
  <<"/">> \o TrimPrefix(pathClean(<<"/">> \o filepathToURLPath(file)), <<"/">>)

(***************************************************************************)
(* Option normalisation.                                                   *)
(***************************************************************************)
DefaultIndexFile == <<"index.html">>

\* newEmbeddedStaticOptions: [ok, cfg, err]; opts has at most one record here.
newEmbeddedStaticOptions(opts) ==
  LET cfg == [indexFile |-> DefaultIndexFile, cacheControl |-> "",
              encodings |-> defaultStaticEncodings]
  IN IF Len(opts) = 0 THEN [ok |-> TRUE, cfg |-> cfg, err |-> ""]
     ELSE LET o == opts[1]
              cfg1 == [cfg EXCEPT
                         !.indexFile = IF o.IndexFile # <<>>
                                       THEN TrimPrefix(pathClean(<<"/">> \o o.IndexFile), <<"/">>)
                                       ELSE @,
                         !.cacheControl = o.CacheControl]
          IN IF Len(o.Encodings) = 0 THEN [ok |-> TRUE, cfg |-> cfg1, err |-> ""]
             ELSE LET n == normalizeEncodingOrder(o.Encodings)
                  IN IF ~n.ok THEN [ok |-> FALSE, cfg |-> cfg, err |-> n.err]
                     ELSE [ok |-> TRUE, cfg |-> [cfg1 EXCEPT !.encodings = n.list], err |-> ""]

\* Variant: the prefix is not cleaned.
normalizeRoutePrefixUncleaned(prefix) ==
  LET trimmed == TrimSpaceStr(prefix)
  IN IF trimmed = <<>> THEN [ok |-> FALSE, prefix |-> <<>>, err |-> "prefix cannot be empty"]
     ELSE IF "*" \in Range(trimmed)
          THEN [ok |-> FALSE, prefix |-> <<>>, err |-> "prefix cannot contain wildcard"]
     ELSE [ok |-> TRUE, err |-> "",
           prefix |-> IF HasPrefix(trimmed, <<"/">>) THEN trimmed ELSE <<"/">> \o trimmed]

\* normalizeRoutePrefix: [ok, prefix, err].
normalizeRoutePrefix(prefix) ==
  LET trimmed == TrimSpaceStr(prefix)
  IN IF trimmed = <<>> THEN [ok |-> FALSE, prefix |-> <<>>, err |-> "prefix cannot be empty"]
     ELSE IF "*" \in Range(trimmed)
          THEN [ok |-> FALSE, prefix |-> <<>>, err |-> "prefix cannot contain wildcard"]
     ELSE LET slashed == IF HasPrefix(trimmed, <<"/">>) THEN trimmed ELSE <<"/">> \o trimmed
              cleaned == pathClean(slashed)
          IN [ok |-> TRUE, prefix |-> IF cleaned = <<".">> THEN <<"/">> ELSE cleaned, err |-> ""]

staticRoutes(prefix) ==
  IF prefix = <<"/">> THEN {<<"/">>, <<"/", "*">>}
  ELSE {prefix, prefix \o <<"/", "*">>}

(***************************************************************************)
(* The source filesystem: [nil, dirs], dirs a function from directory      *)
(* names to [walkErr, files], files a function from the walked file paths  *)
(* to their bytes.  The directory "." is the root.                         *)
(***************************************************************************)
\* subFS: fs.Sub fails on a directory name that is no valid path.
subFS(staticFS, dir) ==
  IF dir = "" \/ dir = "." THEN [ok |-> TRUE, fs |-> staticFS.dirs["."], err |-> ""]
  ELSE IF dir = "../bad"
       THEN [ok |-> FALSE, fs |-> [walkErr |-> TRUE, files |-> EmptyDeclared],
             err |-> "failed to open static directory"]
  ELSE IF dir \in DOMAIN staticFS.dirs THEN [ok |-> TRUE, fs |-> staticFS.dirs[dir], err |-> ""]
  ELSE [ok |-> TRUE, fs |-> [walkErr |-> TRUE, files |-> EmptyDeclared], err |-> ""]

\* preloadEmbeddedAssets: [ok, assets, err].
preloadEmbeddedAssets(sourceFS, encodings) ==
  LET compressors == prepareCompressors(encodings)
      built == [f \in DOMAIN sourceFS.files |->
                  buildAsset(sourceFS.files[f], f, encodings, compressors)]
      keys == {assetKey(f) : f \in DOMAIN sourceFS.files}
  IN IF sourceFS.walkErr \/ \E f \in DOMAIN built : ~built[f].ok
     THEN [ok |-> FALSE, assets |-> EmptyDeclared, err |-> "failed to preload static assets"]
     ELSE IF keys = {}
          THEN [ok |-> FALSE, assets |-> EmptyDeclared, err |-> "no static files found"]
     ELSE [ok |-> TRUE, err |-> "",
           assets |-> [k \in keys |->
                         built[CHOOSE f \in DOMAIN sourceFS.files : assetKey(f) = k].asset]]


(***************************************************************************)
(* Request time.                                                           *)
(***************************************************************************)
\* The router's match of a request path against the two bound patterns (the
\* exact pattern is bound first; routing is not strict about a trailing "/"):
\* [matched, route, params], params being the value of c.Params("*").
routeMatch(path, prefix) ==
  LET base == IF prefix = <<"/">> THEN <<>> ELSE prefix
  IN IF path = prefix \/ path = base \o <<"/">>
     THEN [matched |-> TRUE, route |-> prefix, params |-> <<>>]
     ELSE IF HasPrefix(path, base \o <<"/">>)
          THEN [matched |-> TRUE, route |-> base \o <<"/", "*">>,
                params |-> TrimPrefix(path, base \o <<"/">>)]
     ELSE [matched |-> FALSE, route |-> <<>>, params |-> <<>>]

\* The first part of resolveAsset: the cleaned relative path of the request.
cleanRequestPath(h, params, path) ==
  LET relative0 == IF params = <<>> /\ h.prefix # <<"/">>
                   THEN TrimPrefix(path, h.prefix) ELSE params
      relative1 == TrimPrefix(filepathToURLPath(relative0), <<"/">>)
      relative == IF relative1 = <<>> THEN h.indexFile ELSE relative1
  IN TrimPrefix(pathClean(<<"/">> \o relative), <<"/">>)

\* Variant: the fallback is tried for the index file itself too.
wantsIndexFallbackAlways(cleanPath, indexFile) == TRUE

\* The guard of the index fallback.
wantsIndexFallback(cleanPath, indexFile) == cleanPath # indexFile

\* resolveAsset: [ok, key, lookups], lookups being the keys looked up in order.
resolveAsset(h, params, path) ==
  LET cleanPath == cleanRequestPath(h, params, path)
      direct == <<"/">> \o cleanPath
      indexPath == <<"/">> \o pathJoin(cleanPath, h.indexFile)
  IN IF direct \in DOMAIN h.assets
     THEN [ok |-> TRUE, key |-> direct, lookups |-> <<direct>>]
     ELSE IF wantsIndexFallback(cleanPath, h.indexFile)
          THEN IF indexPath \in DOMAIN h.assets
               THEN [ok |-> TRUE, key |-> indexPath, lookups |-> <<direct, indexPath>>]
               ELSE [ok |-> FALSE, key |-> <<>>, lookups |-> <<direct, indexPath>>]
     ELSE [ok |-> FALSE, key |-> <<>>, lookups |-> <<direct>>]

\* A response: status, the headers the handler sets ("" is an absent header),
\* the body, and the error returned to the router.
NoResponse ==
  [status |-> 0, vary |-> "", contentType |-> "", cacheControl |-> "",
   contentEncoding |-> "", contentLength |-> 0, body |-> <<>>, err |-> FALSE]

\* c.SendStatus.
SendStatus(status) == [NoResponse EXCEPT !.status = status]

\* Variant: the header is written for identity as well.
contentEncodingHeaderAlways(encoding) == encoding

\* The value written to the Content-Encoding header.
contentEncodingHeader(encoding) ==
  IF encoding # ContentEncodingIdentity THEN encoding ELSE ""

\* Variant: the raw bytes are sent whatever coding was negotiated.
responseBodyRaw(asset, encoding) == asset.variants[ContentEncodingIdentity]

\* The body of the response: asset.variants[encoding], the nil slice when the
\* map has no such coding.
responseBody(asset, encoding) ==
  IF encoding \in DOMAIN asset.variants THEN asset.variants[encoding] ELSE <<>>

\* Variant: a HEAD response announces the length of the raw file.
serveHeadRawLength(h, method, params, path, header) ==
  LET resolved == resolveAsset(h, params, path)
  IN IF ~resolved.ok THEN SendStatus(404)
     ELSE LET asset == h.assets[resolved.key]
              n == negotiateEncoding(header, h.encodings, asset.variants)
          IN IF ~n.ok THEN SendStatus(406)
             ELSE LET body == responseBody(asset, n.encoding)
                      hdrs == [NoResponse EXCEPT
                                 !.status = 200,
                                 !.vary = "Accept-Encoding",
                                 !.contentType = asset.contentType,
                                 !.cacheControl = h.cacheControl,
                                 !.contentEncoding = contentEncodingHeader(n.encoding)]
                  IN IF method = "HEAD"
                     THEN [hdrs EXCEPT
                             !.contentLength = Len(asset.variants[ContentEncodingIdentity])]
                     ELSE [hdrs EXCEPT !.contentLength = Len(body), !.body = body]

\* Variant: Vary is set only when a compressed coding was negotiated.
serveVaryOnlyWhenEncoded(h, method, params, path, header) ==
  LET resolved == resolveAsset(h, params, path)
  IN IF ~resolved.ok THEN SendStatus(404)
     ELSE LET asset == h.assets[resolved.key]
              n == negotiateEncoding(header, h.encodings, asset.variants)
          IN IF ~n.ok THEN SendStatus(406)
             ELSE LET body == responseBody(asset, n.encoding)
                      hdrs == [NoResponse EXCEPT
                                 !.status = 200,
                                 !.vary = IF n.encoding # ContentEncodingIdentity
                                          THEN "Accept-Encoding" ELSE "",
                                 !.contentType = asset.contentType,
                                 !.cacheControl = h.cacheControl,
                                 !.contentEncoding = contentEncodingHeader(n.encoding)]
                  IN IF method = "HEAD"
                     THEN [hdrs EXCEPT !.contentLength = Len(body)]
                     ELSE [hdrs EXCEPT !.contentLength = Len(body), !.body = body]

\* Variant: the header is negotiated (against the identity representation)
\* before the path is resolved.
serveNegotiatingFirst(h, method, params, path, header) ==
  LET resolved == resolveAsset(h, params, path)
      early == negotiateEncoding(header, h.encodings,
                                 [e \in {ContentEncodingIdentity} |-> <<>>])
  IN IF ~early.ok THEN SendStatus(406)
     ELSE IF ~resolved.ok THEN SendStatus(404)
     ELSE LET asset == h.assets[resolved.key]
              n == negotiateEncoding(header, h.encodings, asset.variants)
          IN IF ~n.ok THEN SendStatus(406)
             ELSE LET body == responseBody(asset, n.encoding)
                      hdrs == [NoResponse EXCEPT
                                 !.status = 200,
                                 !.vary = "Accept-Encoding",
                                 !.contentType = asset.contentType,
                                 !.cacheControl = h.cacheControl,
                                 !.contentEncoding = contentEncodingHeader(n.encoding)]
                  IN IF method = "HEAD"
                     THEN [hdrs EXCEPT !.contentLength = Len(body)]
                     ELSE [hdrs EXCEPT !.contentLength = Len(body), !.body = body]

\* serve.
serve(h, method, params, path, header) ==
  LET resolved == resolveAsset(h, params, path)
  IN IF ~resolved.ok THEN SendStatus(404)
     ELSE LET asset == h.assets[resolved.key]
              n == negotiateEncoding(header, h.encodings, asset.variants)
          IN IF ~n.ok THEN SendStatus(406)
             ELSE LET body == responseBody(asset, n.encoding)
                      hdrs == [NoResponse EXCEPT
                                 !.status = 200,
                                 !.vary = "Accept-Encoding",
                                 !.contentType = asset.contentType,
                                 !.cacheControl = h.cacheControl,
                                 !.contentEncoding = contentEncodingHeader(n.encoding)]
                  IN IF method = "HEAD"
                     THEN [hdrs EXCEPT !.contentLength = Len(body)]
                     ELSE [hdrs EXCEPT !.contentLength = Len(body), !.body = body]

(***************************************************************************)
(* RegisterEmbeddedStatic: [err, handler, routes].                         *)
(***************************************************************************)
NoHandler ==
  [prefix |-> <<>>, indexFile |-> <<>>, cacheControl |-> "", encodings |-> <<>>,
   assets |-> EmptyDeclared]

\* Variant: the routes are bound as soon as the prefix is known, before the
\* directory is opened and the files are preloaded.
RegisterEmbeddedStaticBindingFirst(routerNil, prefix, staticFS, dir, opts) ==
  LET fail(e) == [err |-> e, handler |-> NoHandler, routes |-> {}]
      bound(p) == {[method |-> m, route |-> r] : m \in {"GET", "HEAD"}, r \in staticRoutes(p)}
  IN IF routerNil THEN fail("router cannot be nil")
     ELSE IF staticFS.nil THEN fail("filesystem cannot be nil")
     ELSE IF Len(opts) > 1 THEN fail("only one options argument is allowed")
     ELSE LET cfg == newEmbeddedStaticOptions(opts)
          IN IF ~cfg.ok THEN fail(cfg.err)
             ELSE LET np == normalizeRoutePrefix(prefix)
                  IN IF ~np.ok THEN fail(np.err)
                     ELSE LET sub == subFS(staticFS, dir)
                          IN IF ~sub.ok
                             THEN [fail(sub.err) EXCEPT !.routes = bound(np.prefix)]
                             ELSE LET pre == preloadEmbeddedAssets(sub.fs, cfg.cfg.encodings)
                                  IN IF ~pre.ok
                                     THEN [fail(pre.err) EXCEPT !.routes = bound(np.prefix)]
                                     ELSE [err |-> "",
                                           handler |-> [prefix |-> np.prefix,
                                                        indexFile |-> cfg.cfg.indexFile,
                                                        cacheControl |-> cfg.cfg.cacheControl,
                                                        encodings |-> cfg.cfg.encodings,
                                                        assets |-> pre.assets],
                                           routes |-> bound(np.prefix)]

RegisterEmbeddedStatic(routerNil, prefix, staticFS, dir, opts) ==
  LET fail(e) == [err |-> e, handler |-> NoHandler, routes |-> {}]
  IN IF routerNil THEN fail("router cannot be nil")
     ELSE IF staticFS.nil THEN fail("filesystem cannot be nil")
     ELSE IF Len(opts) > 1 THEN fail("only one options argument is allowed")
     ELSE LET cfg == newEmbeddedStaticOptions(opts)
          IN IF ~cfg.ok THEN fail(cfg.err)
             ELSE LET np == normalizeRoutePrefix(prefix)
                  IN IF ~np.ok THEN fail(np.err)
                     ELSE LET sub == subFS(staticFS, dir)
                          IN IF ~sub.ok THEN fail(sub.err)
                             ELSE LET pre == preloadEmbeddedAssets(sub.fs, cfg.cfg.encodings)
                                  IN IF ~pre.ok THEN fail(pre.err)
                                     ELSE [err |-> "",
                                           handler |-> [prefix |-> np.prefix,
                                                        indexFile |-> cfg.cfg.indexFile,
                                                        cacheControl |-> cfg.cfg.cacheControl,
                                                        encodings |-> cfg.cfg.encodings,
                                                        assets |-> pre.assets],
                                           routes |-> {[method |-> m, route |-> r] :
                                                         m \in {"GET", "HEAD"},
                                                         r \in staticRoutes(np.prefix)}]


(***************************************************************************)
(* Inputs.                                                                 *)
(***************************************************************************)
Rep(b, n) == [i \in 1..n |-> b]

\* Accept-Encoding parts and headers of the negotiation specification.
NegParts ==
  {Part(n, ps) : n \in {"identity", "gzip", "br", "*"},
                 ps \in {<<>>, <<QParam(0)>>, <<QParam(5)>>}}
    \cup {Part("identity", <<QParam(NaN)>>), Part("gzip", <<QParam(NaN)>>),
          Part("*", <<QParam(10)>>), Part("", <<>>), Part("foo", <<QParam(0)>>)}

NegHeaders == SeqsUpTo(NegParts, MaxParts) \ {<<>>}

\* Server preference lists: the default one and what normalizeEncodingOrder
\* makes of the short option lists.
NegOrders ==
  {defaultStaticEncodings} \cup
  {normalizeEncodingOrder(l).list :
     l \in SeqsUpTo({"gzip", "br", "identity"}, MaxEncLen) \ {<<>>}}

\* Files of the negotiation specification: one per set of kept variants.
NegFiles == {Rep(97, n) : n \in {0, MaxFileLen - 2, MaxFileLen - 1, MaxFileLen}}

NoRequest == [method |-> "", path |-> <<>>, header |-> EmptyHeader]

NoCall == [fn |-> "none"]

(***************************************************************************)
(* SpecNeg: negotiateEncoding applied to every header, server preference   *)
(* list and variant set (the variants buildAsset keeps for a file).        *)
(***************************************************************************)
\* The server preference lists with the variants buildAsset keeps under
\* them for each file.
NegTargets ==
  {[preferred |-> preferred,
    variants |-> buildAsset(raw, <<"r.txt">>, preferred,
                            prepareCompressors(preferred)).asset.variants] :
     preferred \in NegOrders, raw \in NegFiles}

\* The specs of the absent header: nothing parsed yet.
NoSpecs == parseAcceptEncoding(EmptyHeader)

InitNeg ==
  /\ router = {}
  /\ handler = NoHandler
  /\ regResult = "none"
  /\ request = NoRequest
  /\ response = NoResponse
  /\ \E header \in NegHeaders, target \in NegTargets :
       call = [fn |-> "negotiateEncoding", done |-> FALSE,
               header |-> header, preferred |-> target.preferred,
               variants |-> target.variants,
               specs |-> NoSpecs,
               q |-> [e \in Codings |-> 0],
               ret |-> [encoding |-> "", ok |-> FALSE]]

Negotiate ==
  /\ call.fn = "negotiateEncoding"
  /\ ~call.done
  /\ LET specs == parseAcceptEncoding(call.header)
     IN call' = [call EXCEPT
                   !.done = TRUE,
                   !.specs = specs,
                   !.q = [e \in Codings |-> qValueFor(specs, e)],
                   !.ret = negotiateEncoding(call.header, call.preferred, call.variants)]
  /\ UNCHANGED <<router, handler, regResult, request, response>>

NextNeg == Negotiate

SpecNeg == InitNeg /\ [][NextNeg]_vars


(***************************************************************************)
(* Spec: one registration, then requests served by the registered handler. *)
(***************************************************************************)
\* The files of the test fixture, r.txt being a run of rlen bytes.  The
\* directory "empty" holds no file; the walk of "broken" returns an error (a
\* directory entry or a file of it cannot be read).
FixtureFiles(rlen) ==
  LET names == {<<"index.html">>, <<"docs", "/", "index.html">>, <<"a.txt">>,
                <<"r.txt">>, <<"docs", "/", "home.htm">>, <<"b">>}
  IN [f \in names |->
        CASE f = <<"index.html">> -> <<60, 104>>
          [] f = <<"docs", "/", "index.html">> -> <<60, 100>>
          [] f = <<"docs", "/", "home.htm">> -> <<60, 109>>
          [] f = <<"a.txt">> -> <<72, 105>>
          [] f = <<"b">> -> <<0, 1>>
          [] f = <<"r.txt">> -> Rep(97, rlen)]

FixtureFS(rlen) ==
  [nil |-> FALSE,
   dirs |-> [d \in {".", "static", "empty", "broken"} |->
               [walkErr |-> d = "broken",
                files |-> IF d = "empty" THEN EmptyDeclared ELSE FixtureFiles(rlen)]]]

Options(indexFile, cacheControl, encodings) ==
  [IndexFile |-> indexFile, CacheControl |-> cacheControl, Encodings |-> encodings]

RegInput(routerNil, prefix, staticFS, dir, opts) ==
  [routerNil |-> routerNil, prefix |-> prefix, staticFS |-> staticFS, dir |-> dir,
   opts |-> opts]

\* The registrations tried: the fixture's, and one variation of it at a time.
RegInputs ==
  {RegInput(FALSE, <<"/", "s">>, FixtureFS(n), "static", <<>>) : n \in 0..MaxFileLen}
  \cup {RegInput(FALSE, p, FixtureFS(MaxFileLen), "static", <<>>) :
          p \in {<<"s">>, <<" ", "/", "s", "/">>, <<"/">>, <<>>, <<" ">>, <<"/", "s", "*">>}}
  \cup {RegInput(FALSE, <<"/", "s">>, FixtureFS(MaxFileLen), d, <<>>) :
          d \in {".", "", "missing", "../bad", "empty"}}
  \cup {RegInput(FALSE, <<"/", "s">>, FixtureFS(MaxFileLen), "static", <<o>>) :
          o \in {Options(<<"home.htm">>, "", <<>>),
                 Options(<<"/", "docs", "/", ".", "/", "index.html">>, "", <<>>),
                 Options(<<>>, "no-cache", <<>>),
                 Options(<<>>, "", <<"gzip">>),
                 Options(<<>>, "", <<"br", "GZIP", "x-gzip">>),
                 Options(<<>>, "", <<"identity", "deflate">>),
                 Options(<<>>, "", <<"gzip", "foo">>)}}
  \cup {RegInput(TRUE, <<"/", "s">>, FixtureFS(MaxFileLen), "static", <<>>),
        RegInput(FALSE, <<"/", "s">>, [FixtureFS(MaxFileLen) EXCEPT !.nil = TRUE], "static", <<>>),
        RegInput(FALSE, <<"/", "s">>, FixtureFS(MaxFileLen), "static",
                 <<Options(<<>>, "", <<>>), Options(<<>>, "", <<>>)>>)}

\* Accept-Encoding parts and headers of the requests.
ServeParts ==
  {Part(n, ps) : n \in {"identity", "gzip"}, ps \in {<<>>, <<QParam(0)>>, <<QParam(NaN)>>}}
    \cup {Part("*", <<>>), Part("*", <<QParam(0)>>)}

\* The absent (empty) header, a blank one, and the lists of parts.
ServeHeaders ==
  {EmptyHeader, <<Part(" ", <<>>)>>} \cup (SeqsUpTo(ServeParts, MaxParts) \ {<<>>})

\* What follows the prefix in the request paths.
ServeRests ==
  {<<>>, <<"/">>, <<"/", "a.txt">>, <<"/", "r.txt">>, <<"/", "docs">>, <<"/", "docs", "/">>,
   <<"/", "missing">>, <<"/", ".", ".", "/", "r.txt">>}

Init ==
  /\ router = {}
  /\ handler = NoHandler
  /\ regResult = "none"
  /\ request = NoRequest
  /\ response = NoResponse
  /\ call = NoCall

Register ==
  /\ regResult = "none"
  /\ \E inp \in RegInputs :
       LET r == RegisterEmbeddedStatic(inp.routerNil, inp.prefix, inp.staticFS, inp.dir, inp.opts)
       IN /\ regResult' = IF r.err = "" THEN "ok" ELSE r.err
          /\ handler' = r.handler
          /\ router' = router \cup r.routes
          /\ call' = LET files == subFS(inp.staticFS, inp.dir).fs.files
                      IN [fn |-> "RegisterEmbeddedStatic",
                          files |-> files,
                          raws |-> [k \in {assetKey(f) : f \in DOMAIN files} |->
                                      files[CHOOSE f \in DOMAIN files : assetKey(f) = k]],
                          opts |-> inp.opts]
  /\ UNCHANGED <<request, response>>

\* A request the router hands to the handler; the handler runs to its return.
Serve(method) ==
  /\ regResult = "ok"
  /\ response = NoResponse
  /\ \E rest \in ServeRests, header \in ServeHeaders :
       LET base == IF handler.prefix = <<"/">> THEN <<>> ELSE handler.prefix
           path == IF base \o rest = <<>> THEN <<"/">> ELSE base \o rest
           m == routeMatch(path, handler.prefix)
       IN /\ m.matched
          /\ [method |-> method, route |-> m.route] \in router
          /\ request' = [method |-> method, path |-> path, header |-> header]
          /\ response' = serve(handler, method, m.params, path, header)
  /\ UNCHANGED <<router, handler, regResult, call>>

ServeGet == Serve("GET")

ServeHead == Serve("HEAD")

\* The server writes the response out and releases the request context.
Deliver ==
  /\ response # NoResponse
  /\ request' = NoRequest
  /\ response' = NoResponse
  /\ UNCHANGED <<router, handler, regResult, call>>

Next == Register \/ ServeGet \/ ServeHead \/ Deliver

Spec == Init /\ [][Next]_vars


(***************************************************************************)
(* Properties of the negotiation (SpecNeg).                                *)
(***************************************************************************)
\* A header names coding e in one of its parts (aliases and case folded).
Declares(header, e) ==
  /\ ~HeaderIsBlank(header)
  /\ \E i \in 1..Len(header) :
       LET c == canonicalEncoding(ToLower(TrimSpace(header[i].name)))
       IN c.ok /\ c.enc = e

\* A header has a "*" part.
HasWildcard(header) ==
  /\ ~HeaderIsBlank(header)
  /\ \E i \in 1..Len(header) : ToLower(TrimSpace(header[i].name)) = "*"

Positive(q) == q # NaN /\ q > 0

\* The compressed codings enabled on the server and available for the asset.
Available == (Range(call.preferred) \cap DOMAIN call.variants) \ {ContentEncodingIdentity}

\* Those of them that the client accepts, and those of the highest q.
Acceptable == {e \in Available : Positive(call.q[e])}

Top == {e \in Acceptable : \A f \in Acceptable : call.q[f] <= call.q[e]}

IndexOf(list, e) == CHOOSE i \in 1..Len(list) : list[i] = e

NegDone == call.fn = "negotiateEncoding" /\ call.done

IdentityTie ==
  /\ NegDone
  /\ Declares(call.header, ContentEncodingIdentity)
  /\ Positive(call.q[ContentEncodingIdentity])
  /\ \E e \in Top : call.q[e] = call.q[ContentEncodingIdentity]

\* C1 as stated: on an exact tie between a declared identity and the best
\* compressed coding, negotiateEncoding returns identity.
C1_TieGivesIdentity ==
  IdentityTie => call.ret.ok /\ call.ret.encoding = ContentEncodingIdentity

\* C1 amended: on an exact tie between a declared identity of positive q and
\* the highest q among the enabled, available compressed codings,
\* negotiateEncoding returns a compressed coding of that q, not identity.
C1_TieGivesCompressed ==
  IdentityTie => call.ret.ok /\ call.ret.encoding \in Top

C1_Witness == IdentityTie /\ call.ret.encoding \in Top

\* C2: a compressed coding that negotiateEncoding returns is, among the
\* enabled, available codings of the highest positive q, the earliest of the
\* server preference list; a header of only "*;q=1" yields the first coding
\* of the server list that has a variant.
C2_ServerOrderBreaksTies ==
  NegDone =>
    /\ (call.ret.ok /\ call.ret.encoding # ContentEncodingIdentity) =>
         /\ call.ret.encoding \in Top
         /\ \A e \in Top : IndexOf(call.preferred, call.ret.encoding) <= IndexOf(call.preferred, e)
    /\ (call.header = <<Part("*", <<QParam(10)>>)>> /\ Available # {}) =>
         /\ call.ret.ok
         /\ call.ret.encoding \in Available
         /\ \A e \in Available : IndexOf(call.preferred, call.ret.encoding) <= IndexOf(call.preferred, e)

C2_Witness ==
  /\ NegDone
  /\ Cardinality(Top) >= 2
  /\ call.ret.encoding \in Top
  /\ ~Declares(call.header, ContentEncodingIdentity)

\* C5: a declared identity whose positive q is strictly greater than the q of
\* every enabled, available compressed coding is returned; when identity is
\* not declared and some enabled, available compressed coding has q > 0, a
\* compressed coding is returned.
C5_ExplicitIdentityOverride ==
  NegDone =>
    /\ ( /\ Declares(call.header, ContentEncodingIdentity)
         /\ Positive(call.q[ContentEncodingIdentity])
         /\ \A e \in Available : FGt(call.q[ContentEncodingIdentity], call.q[e]) )
       => (call.ret.ok /\ call.ret.encoding = ContentEncodingIdentity)
    /\ ( /\ ~Declares(call.header, ContentEncodingIdentity)
         /\ Acceptable # {} )
       => (call.ret.ok /\ call.ret.encoding \in Available)

C5_Witness ==
  /\ NegDone
  /\ Declares(call.header, ContentEncodingIdentity)
  /\ Acceptable # {}
  /\ \A e \in Available : FGt(call.q[ContentEncodingIdentity], call.q[e])
  /\ call.ret.encoding = ContentEncodingIdentity

\* The q of the last part of the header that names coding e, or "*".
LastQ(header, name) ==
  LET named == {i \in 1..Len(header) :
                  IF name = "*" THEN ToLower(TrimSpace(header[i].name)) = "*"
                  ELSE LET c == canonicalEncoding(ToLower(TrimSpace(header[i].name)))
                       IN c.ok /\ c.enc = name}
      last == CHOOSE i \in named : \A j \in named : j <= i
  IN tokenQ(header[last])

\* C6: with a non-empty header the q of a coding is its declared q if it is
\* declared; for an undeclared identity 1, but 0 when "*" appears with q = 0;
\* for an undeclared compressed coding the q of "*" if it appears, else 0.
C6_QValueFor ==
  (NegDone /\ ~HeaderIsBlank(call.header)) =>
    \A e \in Codings :
      call.q[e] =
        IF Declares(call.header, e) THEN LastQ(call.header, e)
        ELSE IF e = ContentEncodingIdentity
             THEN (IF HasWildcard(call.header) /\ LastQ(call.header, "*") = 0 THEN 0 ELSE 10)
        ELSE IF HasWildcard(call.header) THEN LastQ(call.header, "*")
        ELSE 0

C6_Witness ==
  /\ NegDone
  /\ HasWildcard(call.header)
  /\ LastQ(call.header, "*") = 0
  /\ ~Declares(call.header, ContentEncodingIdentity)
  /\ call.q[ContentEncodingIdentity] = 0
  /\ ~call.ret.ok


\* A part is a token that names neither a known coding nor "*".
UnknownToken(part) ==
  /\ ~(TrimSpace(part.name) = "" /\ part.params = <<>>)
  /\ ToLower(TrimSpace(part.name)) # "*"
  /\ ToLower(TrimSpace(part.name)) \notin Codings \cup {"x-gzip", "x-deflate"}

\* The header without its unknown tokens; the empty header when none is left.
WithoutUnknown(header) ==
  LET rest == SelectSeq(header, LAMBDA part : ~UnknownToken(part))
  IN IF rest = <<>> THEN EmptyHeader ELSE rest

\* C18: negotiateEncoding returns for a header what it returns for the
\* header with the tokens that name an unknown coding removed (the absent
\* header when only such tokens are present).
C18_UnknownTokensIgnored ==
  NegDone =>
    call.ret = negotiateEncoding(WithoutUnknown(call.header), call.preferred, call.variants)

C18_Witness ==
  /\ NegDone
  /\ \E i \in 1..Len(call.header) : UnknownToken(call.header[i])
  /\ WithoutUnknown(call.header) = <<Part("gzip", <<>>)>>
  /\ call.ret = [encoding |-> ContentEncodingGzip, ok |-> TRUE]


(***************************************************************************)
(* Properties of registration and serving (Spec).                          *)
(***************************************************************************)
Registered == regResult = "ok"

Served == response # NoResponse

\* The files registration walked, and the bytes of the file behind a key
\* (the key a walked file gets is assetKey of its path).
SourceFiles == call.files

RawOf(key) == call.raws[key]

\* The resolution of the request being answered, its asset, and the result
\* and the q-values of the negotiation for it.
Resolved ==
  resolveAsset(handler, routeMatch(request.path, handler.prefix).params, request.path)

ResolvedAsset == handler.assets[Resolved.key]

Negotiated == negotiateEncoding(request.header, handler.encodings, ResolvedAsset.variants)

RequestQ(e) == qValueFor(parseAcceptEncoding(request.header), e)

\* C3 as stated: a request with no, an empty or a blank Accept-Encoding
\* header is answered with identity: 200, no Content-Encoding, and the raw
\* file as the body.
C3_NoHeaderRawBody ==
  (Served /\ HeaderIsBlank(request.header) /\ Resolved.ok) =>
    /\ Negotiated = [encoding |-> ContentEncodingIdentity, ok |-> TRUE]
    /\ response.status = 200
    /\ response.contentEncoding = ""
    /\ response.body = RawOf(Resolved.key)

\* C3 amended: a request with no, an empty or a blank Accept-Encoding header
\* is answered with identity, never a compressed coding: 200, no
\* Content-Encoding, and for a GET request the raw file as the body (a HEAD
\* response has no body and the raw length as Content-Length).
C3_NoHeaderIdentity ==
  (Served /\ HeaderIsBlank(request.header)) =>
    LET resolved == Resolved
    IN resolved.ok =>
         /\ Negotiated = [encoding |-> ContentEncodingIdentity, ok |-> TRUE]
         /\ response.status = 200
         /\ response.contentEncoding = ""
         /\ response.contentLength = Len(RawOf(resolved.key))
         /\ request.method = "GET" => response.body = RawOf(resolved.key)
         /\ request.method = "HEAD" => response.body = <<>>

C3_Witness ==
  /\ Served
  /\ request.header = <<Part(" ", <<>>)>>
  /\ request.method = "GET"
  /\ Resolved.ok
  /\ Cardinality(DOMAIN ResolvedAsset.variants) > 1
  /\ response.status = 200
  /\ response.body = RawOf(Resolved.key)

\* C4: for a resolved asset the response is 406 exactly when every coding
\* that has a variant has q = 0, and 200 when some available variant has a
\* positive q.
C4_NotAcceptableIffAllZero ==
  (Served /\ Resolved.ok) =>
    /\ response.status = 406 <=> \A e \in DOMAIN ResolvedAsset.variants : RequestQ(e) = 0
    /\ (\E e \in DOMAIN ResolvedAsset.variants : Positive(RequestQ(e))) => response.status = 200

\* The statement of C4 holds of every request none of whose q-values is NaN.
NotAcceptableIffAllZeroWithoutNaN ==
  Served =>
    LET resolved == Resolved
        specs == parseAcceptEncoding(request.header)
    IN (resolved.ok /\ \A e \in Codings : qValueFor(specs, e) # NaN) =>
         /\ response.status \in {200, 406}
         /\ response.status = 406 <=>
              \A e \in DOMAIN handler.assets[resolved.key].variants : qValueFor(specs, e) = 0

\* C7: every asset of the catalog has the raw file as its identity variant,
\* and every other variant it keeps is strictly shorter than the raw file.
C7_OnlyEffectiveVariants ==
  Registered =>
    \A k \in DOMAIN handler.assets :
      LET v == handler.assets[k].variants
          raw == RawOf(k)
      IN /\ ContentEncodingIdentity \in DOMAIN v
         /\ v[ContentEncodingIdentity] = raw
         /\ \A e \in DOMAIN v \ {ContentEncodingIdentity} :
              Len(v[e]) < Len(v[ContentEncodingIdentity])
         /\ Len(raw) = 0 => DOMAIN v = {ContentEncodingIdentity}

C7_Witness ==
  /\ Registered
  /\ \E k \in DOMAIN handler.assets :
       LET v == handler.assets[k].variants
       IN /\ DOMAIN v # {ContentEncodingIdentity}
          /\ \E e \in Range(handler.encodings) :
               /\ e \notin DOMAIN v
               /\ Len(compress(prepareCompressors(handler.encodings)[e], RawOf(k)))
                    = Len(RawOf(k))

\* C8 as stated: in every 200 response the body is the stored variant of the
\* negotiated coding, Content-Encoding names that coding unless it is
\* identity (then it is absent), and the decoded body is the raw file.
C8_BodyIsNegotiatedVariant ==
  (Served /\ response.status = 200) =>
    /\ Resolved.ok /\ Negotiated.ok
    /\ response.body = ResolvedAsset.variants[Negotiated.encoding]
    /\ response.contentEncoding =
         (IF Negotiated.encoding = ContentEncodingIdentity THEN "" ELSE Negotiated.encoding)
    /\ decompressBody(response.contentEncoding, response.body)
         = [ok |-> TRUE, data |-> RawOf(Resolved.key)]

\* C8 amended: in every 200 response Content-Encoding names the negotiated
\* coding unless it is identity (then it is absent, "identity" is never
\* written); in every 200 response to a GET request the body is the stored
\* variant of that coding and decodes to the raw file; a HEAD response has
\* no body.
C8_GetBodyIsNegotiatedVariant ==
  (Served /\ response.status = 200) =>
    LET resolved == Resolved
        negotiated == Negotiated
    IN /\ resolved.ok /\ negotiated.ok
       /\ response.contentEncoding # ContentEncodingIdentity
       /\ response.contentEncoding =
            (IF negotiated.encoding = ContentEncodingIdentity THEN "" ELSE negotiated.encoding)
       /\ request.method = "GET" =>
            /\ response.body = handler.assets[resolved.key].variants[negotiated.encoding]
            /\ decompressBody(response.contentEncoding, response.body)
                 = [ok |-> TRUE, data |-> RawOf(resolved.key)]
       /\ request.method = "HEAD" => response.body = <<>>

C8_Witness ==
  /\ Served
  /\ response.status = 200
  /\ request.method = "GET"
  /\ response.contentEncoding = ContentEncodingGzip
  /\ response.body # RawOf(Resolved.key)
  /\ decompressBody(ContentEncodingGzip, response.body).data = RawOf(Resolved.key)

\* C10: the handler answers 200, 404 or 406 and returns no error; a path
\* that resolves to no catalog entry gets 404 whatever the header, and 406 is
\* given only for a resolved asset.
C10_StatusCodes ==
  Served =>
    LET resolved == Resolved
    IN /\ response.status \in {200, 404, 406}
       /\ ~response.err
       /\ ~resolved.ok => response.status = 404
       /\ response.status = 406 => resolved.ok

C10_Witness ==
  /\ Served
  /\ ~Resolved.ok
  /\ response.status = 404
  /\ \A e \in Codings : RequestQ(e) = 0


\* The response serve gives to a GET request with the path and the
\* Accept-Encoding header of the request being answered.
GetResponse ==
  serve(handler, "GET", routeMatch(request.path, handler.prefix).params, request.path,
        request.header)

\* C11: a HEAD request gets the status and the Vary, Content-Type,
\* Cache-Control and Content-Encoding headers of the GET request with the
\* same path and Accept-Encoding header; when the status is 200 its
\* Content-Length is the length of the stored variant of the negotiated
\* coding; and its body is empty.
C11_HeadMatchesGet ==
  (Served /\ request.method = "HEAD") =>
    LET get == GetResponse
    IN /\ response.status = get.status
       /\ response.vary = get.vary
       /\ response.contentType = get.contentType
       /\ response.cacheControl = get.cacheControl
       /\ response.contentEncoding = get.contentEncoding
       /\ response.body = <<>>
       /\ response.status = 200 =>
            LET negotiated == Negotiated
            IN /\ Resolved.ok /\ negotiated.ok
               /\ response.contentLength = Len(ResolvedAsset.variants[negotiated.encoding])
               /\ response.contentLength = Len(get.body)

C11_Witness ==
  /\ Served
  /\ request.method = "HEAD"
  /\ response.status = 200
  /\ response.contentEncoding = ContentEncodingGzip
  /\ response.contentLength = Len(ResolvedAsset.variants[ContentEncodingGzip])
  /\ response.contentLength < Len(RawOf(Resolved.key))
  /\ response.body = <<>>

\* The Cache-Control value configured at registration ("" when none was).
ConfiguredCacheControl ==
  IF Len(call.opts) = 0 THEN "" ELSE call.opts[1].CacheControl

\* C12: every 200 response has Vary: Accept-Encoding and a non-empty
\* Content-Type equal to the content type stored for the asset, whatever
\* coding was negotiated and whether or not the request had an
\* Accept-Encoding header; Cache-Control is present exactly when a non-empty
\* value was configured, and then is that value.
C12_ResponseHeaders ==
  (Served /\ response.status = 200) =>
    /\ response.vary = "Accept-Encoding"
    /\ response.contentType # ""
    /\ response.contentType = ResolvedAsset.contentType
    /\ response.cacheControl # "" <=> ConfiguredCacheControl # ""
    /\ response.cacheControl = ConfiguredCacheControl

C12_Witness ==
  /\ Served
  /\ response.status = 200
  /\ HeaderIsBlank(request.header)
  /\ response.contentEncoding = ""
  /\ response.vary = "Accept-Encoding"
  /\ ConfiguredCacheControl = "no-cache"
  /\ response.cacheControl = "no-cache"


\* The list of codings configured at registration, normalised.
ConfiguredEncodings ==
  IF Len(call.opts) = 0 \/ Len(call.opts[1].Encodings) = 0 THEN defaultStaticEncodings
  ELSE normalizeEncodingOrder(call.opts[1].Encodings).list

\* The header names codings only (no "*"), none of them in the list.
AsksOnlyForUnlisted(header, list) ==
  /\ ~HeaderIsBlank(header)
  /\ \A i \in 1..Len(header) :
       LET c == canonicalEncoding(ToLower(TrimSpace(header[i].name)))
       IN c.ok /\ c.enc \notin Range(list)

\* C16: with a configured list of codings, no asset stores a variant of a
\* coding outside the normalised list; the coding negotiated for a 200
\* response, and the Content-Encoding written, is a member of the list; and a
\* request that names only codings outside the list is served identity with
\* no Content-Encoding header.
C16_OnlyConfiguredEncodings ==
  Registered =>
    LET listed == Range(ConfiguredEncodings)
    IN /\ handler.encodings = ConfiguredEncodings
       /\ \A k \in DOMAIN handler.assets :
            DOMAIN handler.assets[k].variants \subseteq listed
       /\ (Served /\ response.status = 200) =>
            /\ Negotiated.encoding \in listed
            /\ response.contentEncoding \in listed \cup {""}
       /\ (Served /\ AsksOnlyForUnlisted(request.header, ConfiguredEncodings)) =>
            LET resolved == Resolved
            IN resolved.ok =>
                 /\ response.status = 200
                 /\ Negotiated.encoding = ContentEncodingIdentity
                 /\ response.contentEncoding = ""
                 /\ response.contentLength = Len(RawOf(resolved.key))

C16_Witness ==
  /\ Served
  /\ Len(call.opts) = 1
  /\ ContentEncodingGzip \notin Range(ConfiguredEncodings)
  /\ request.header = <<Part("gzip", <<>>)>>
  /\ Resolved.ok
  /\ ~ineffective(compressGzip(RawOf(Resolved.key)), RawOf(Resolved.key))
  /\ ContentEncodingGzip \notin DOMAIN ResolvedAsset.variants
  /\ response.status = 200
  /\ response.contentEncoding = ""


(***************************************************************************)
(* SpecPath: resolveAsset applied to every request path the router hands   *)
(* to a registered handler.                                                *)
(***************************************************************************)
PathAtoms == {"/", "\\", ".", "docs", "index.html", "r.txt"}

PathRests == {<<>>} \cup {<<"/">> \o r : r \in SeqsUpTo(PathAtoms, MaxPathLen)}

\* The registrations whose handlers resolve the paths.
PathRegs ==
  {RegInput(FALSE, <<"/", "s">>, FixtureFS(MaxFileLen), "static", <<>>),
   RegInput(FALSE, <<"/">>, FixtureFS(MaxFileLen), "static", <<>>),
   RegInput(FALSE, <<"/", "s">>, FixtureFS(MaxFileLen), "static",
            <<Options(<<"home.htm">>, "", <<>>)>>),
   RegInput(FALSE, <<"/", "s">>, FixtureFS(MaxFileLen), "static",
            <<Options(<<"docs", "/", "index.html">>, "", <<>>)>>),
   RegInput(FALSE, <<"/", "s">>, FixtureFS(MaxFileLen), "static",
            <<Options(<<"docs", "\\", "index.html">>, "", <<>>)>>)}

\* Their handlers.
PathHandlers ==
  {RegisterEmbeddedStatic(inp.routerNil, inp.prefix, inp.staticFS, inp.dir, inp.opts).handler :
     inp \in PathRegs}

BoundRoutes(h) ==
  {[method |-> m, route |-> r] : m \in {"GET", "HEAD"}, r \in staticRoutes(h.prefix)}

InitPath ==
  /\ request = NoRequest
  /\ response = NoResponse
  /\ regResult = "ok"
  /\ handler \in PathHandlers
  /\ router = BoundRoutes(handler)
  /\ \E rest \in PathRests :
       LET base == IF handler.prefix = <<"/">> THEN <<>> ELSE handler.prefix
       IN call = [fn |-> "resolveAsset", done |-> FALSE,
                  path |-> IF base \o rest = <<>> THEN <<"/">> ELSE base \o rest,
                  ret |-> [ok |-> FALSE, key |-> <<>>, lookups |-> <<>>]]

ResolveAsset ==
  /\ call.fn = "resolveAsset"
  /\ ~call.done
  /\ routeMatch(call.path, handler.prefix).matched
  /\ call' = [call EXCEPT
                !.done = TRUE,
                !.ret = resolveAsset(handler, routeMatch(call.path, handler.prefix).params,
                                     call.path)]
  /\ UNCHANGED <<router, handler, regResult, request, response>>

NextPath == ResolveAsset

SpecPath == InitPath /\ [][NextPath]_vars

PathDone == call.fn = "resolveAsset" /\ call.done

\* What follows the prefix in the path of the call, and the file path it
\* names: the text after the "/" that ends the prefix, less one leading
\* separator.
AfterPrefix ==
  IF handler.prefix = <<"/">> THEN Tail(call.path) ELSE TrimPrefix(call.path, handler.prefix)

PathSuffix == TrimPrefix(filepathToURLPath(TrimPrefix(AfterPrefix, <<"/">>)), <<"/">>)

IndexKey == <<"/">> \o handler.indexFile

\* The key "<key>/<index_file>" of the index file of the directory "key".
IndexKeyUnder(key) ==
  IF key = <<"/">> THEN IndexKey ELSE key \o <<"/">> \o handler.indexFile

\* C9: the bare prefix and the prefix followed by "/" resolve to the root
\* index file; for another path the exact key (the key a walked file of that
\* path gets) is looked up first and wins; only when it is absent and is not
\* the index file is "<key>/<index_file>" looked up; a path and the path
\* followed by "/" resolve to the same asset; otherwise the result is not
\* found.
C9_PathResolution ==
  PathDone =>
    LET ret == call.ret
        first == ret.lookups[1]
    IN /\ Len(ret.lookups) \in {1, 2}
       /\ AfterPrefix \in {<<>>, <<"/">>} => first = IndexKey
       /\ PathSuffix # <<>> => first = assetKey(PathSuffix)
       /\ first \in DOMAIN handler.assets =>
            ret.ok /\ ret.key = first /\ Len(ret.lookups) = 1
       /\ (first \notin DOMAIN handler.assets /\ first # IndexKey) =>
            /\ Len(ret.lookups) = 2
            /\ ret.lookups[2] = IndexKeyUnder(first)
            /\ ret.ok <=> ret.lookups[2] \in DOMAIN handler.assets
            /\ ret.ok => ret.key = ret.lookups[2]
       /\ (first \notin DOMAIN handler.assets /\ first = IndexKey) =>
            ~ret.ok /\ Len(ret.lookups) = 1
       /\ LET slashed == resolveAsset(handler,
                                      routeMatch(call.path \o <<"/">>, handler.prefix).params,
                                      call.path \o <<"/">>)
          IN slashed.ok = ret.ok /\ slashed.key = ret.key

C9_Witness ==
  /\ PathDone
  /\ PathSuffix = <<"docs">>
  /\ call.ret.ok
  /\ call.ret.lookups = <<<<"/", "docs">>, <<"/", "docs", "/", "index.html">>>>
  /\ call.ret.key = <<"/", "docs", "/", "index.html">>


(***************************************************************************)
(* SpecReg: RegisterEmbeddedStatic called once on a router, with every      *)
(* short prefix and with the registrations of RegInputs.                   *)
(***************************************************************************)
RegPrefixAtoms == {"/", "s", " ", "*", "."}

RegPrefixes == SeqsUpTo(RegPrefixAtoms, MaxPathLen)

RegCalls ==
  RegInputs
  \cup {RegInput(FALSE, p, FixtureFS(MaxFileLen), "static", <<>>) : p \in RegPrefixes}
  \cup {RegInput(FALSE, <<"/", "s">>, FixtureFS(MaxFileLen), "broken", <<>>),
        RegInput(FALSE, <<"/", "s">>, FixtureFS(MaxFileLen), "static",
                 <<Options(<<>>, "", <<"foo">>)>>),
        RegInput(FALSE, <<"/", "s">>, FixtureFS(MaxFileLen), "static",
                 <<Options(<<>>, "", <<" ">>)>>),
        RegInput(TRUE, <<"*">>, [FixtureFS(MaxFileLen) EXCEPT !.nil = TRUE], "../bad",
                 <<Options(<<>>, "", <<"foo">>)>>)}

\* The routes other code bound on the router before the call.
RoutersBefore == {{}, {[method |-> "GET", route |-> <<"/", "health">>]}}

InitReg ==
  /\ router \in RoutersBefore
  /\ handler = NoHandler
  /\ regResult = "none"
  /\ request = NoRequest
  /\ response = NoResponse
  /\ \E inp \in RegCalls :
       call = [fn |-> "RegisterEmbeddedStatic", done |-> FALSE, input |-> inp,
               routerBefore |-> router]

RegisterCall ==
  /\ call.fn = "RegisterEmbeddedStatic"
  /\ ~call.done
  /\ LET inp == call.input
         r == RegisterEmbeddedStatic(inp.routerNil, inp.prefix, inp.staticFS, inp.dir, inp.opts)
     IN /\ regResult' = IF r.err = "" THEN "ok" ELSE r.err
        /\ handler' = r.handler
        /\ router' = router \cup r.routes
  /\ call' = [call EXCEPT !.done = TRUE]
  /\ UNCHANGED <<request, response>>

NextReg == RegisterCall

SpecReg == InitReg /\ [][NextReg]_vars

RegDone == call.fn = "RegisterEmbeddedStatic" /\ call.done

\* The routes the call bound.
RoutesBound == router \ call.routerBefore

\* The arguments are one of the cases in which registration has to fail.
MustFail(inp) ==
  \/ inp.routerNil
  \/ inp.staticFS.nil
  \/ Len(inp.opts) > 1
  \/ \A i \in 1..Len(inp.prefix) : inp.prefix[i] = " "
  \/ "*" \in Range(inp.prefix)
  \/ /\ Len(inp.opts) = 1
     /\ \E i \in 1..Len(inp.opts[1].Encodings) :
          ToLower(TrimSpace(inp.opts[1].Encodings[i]))
            \notin Codings \cup {"x-gzip", "x-deflate"}
  \/ inp.dir = "../bad"
  \/ /\ inp.dir \notin {"", "."}
     /\ inp.dir \notin DOMAIN inp.staticFS.dirs
  \/ LET d == IF inp.dir \in {"", "."} THEN "." ELSE inp.dir
     IN /\ d \in DOMAIN inp.staticFS.dirs
        /\ \/ inp.staticFS.dirs[d].walkErr
           \/ DOMAIN inp.staticFS.dirs[d].files = {}

\* C13: RegisterEmbeddedStatic returns an error when the router or the
\* filesystem is nil, more than one options record is given, the prefix is
\* empty, blank or has a "*", a coding is unknown, the directory cannot be
\* opened, the walk fails or no file is found; when it returns an error it
\* has bound no route (the router is as before the call); and it binds
\* routes only when none of these cases holds.
C13_RegistrationAllOrNothing ==
  /\ ~RegDone => router = call.routerBefore
  /\ RegDone =>
       /\ MustFail(call.input) => regResult # "ok"
       /\ regResult # "ok" => (RoutesBound = {} /\ router = call.routerBefore
                               /\ handler = NoHandler)
       /\ RoutesBound # {} => (regResult = "ok" /\ ~MustFail(call.input))

C13_Witness ==
  /\ RegDone
  /\ call.input.dir = "broken"
  /\ call.routerBefore # {}
  /\ normalizeRoutePrefix(call.input.prefix).ok
  /\ regResult = "failed to preload static assets"
  /\ router = call.routerBefore

\* C20: after a successful registration GET and HEAD are bound on exactly
\* two patterns, the normalised prefix and the prefix followed by "/*" ("/"
\* and "/*" when the prefix is "/"); the normalised prefix starts with "/",
\* does not end with "/" unless it is "/", and has no "*".
C20_RoutesBound ==
  (RegDone /\ regResult = "ok") =>
    LET p == handler.prefix
        patterns == IF p = <<"/">> THEN {<<"/">>, <<"/", "*">>}
                    ELSE {p, p \o <<"/", "*">>}
    IN /\ Len(p) >= 1
       /\ p[1] = "/"
       /\ p # <<"/">> => p[Len(p)] # "/"
       /\ "*" \notin Range(p)
       /\ Cardinality(patterns) = 2
       /\ RoutesBound = {[method |-> m, route |-> r] : m \in {"GET", "HEAD"}, r \in patterns}
       /\ Cardinality(RoutesBound) = 4

C20_Witness ==
  /\ RegDone
  /\ regResult = "ok"
  /\ call.input.prefix = <<" ", "s", "/">>
  /\ handler.prefix = <<"/", "s">>
  /\ [method |-> "HEAD", route |-> <<"/", "s", "/", "*">>] \in RoutesBound
  /\ [method |-> "GET", route |-> <<"/", "s">>] \in RoutesBound


(***************************************************************************)
(* SpecNorm: normalizeEncodingOrder applied to every short list of names,  *)
(* and then to its own output.                                             *)
(***************************************************************************)
NormNames ==
  {"gzip", "GZIP", "x-gzip", " gzip ", "br", "identity", "Identity", "deflate",
   "x-deflate", "zstd", "foo"}

NormLists == SeqsUpTo(NormNames, MaxEncLen + 1)

NoList == [ok |-> FALSE, list |-> <<>>, err |-> ""]

InitNorm ==
  /\ router = {}
  /\ handler = NoHandler
  /\ regResult = "none"
  /\ request = NoRequest
  /\ response = NoResponse
  /\ \E encodings \in NormLists :
       call = [fn |-> "normalizeEncodingOrder", step |-> 0, encodings |-> encodings,
               ret |-> NoList, again |-> NoList]

Normalize ==
  /\ call.fn = "normalizeEncodingOrder"
  /\ call.step = 0
  /\ call' = [call EXCEPT !.step = 1, !.ret = normalizeEncodingOrder(call.encodings)]
  /\ UNCHANGED <<router, handler, regResult, request, response>>

\* The list a first call returned is given to a second call.
NormalizeAgain ==
  /\ call.fn = "normalizeEncodingOrder"
  /\ call.step = 1
  /\ call.ret.ok
  /\ call' = [call EXCEPT !.step = 2, !.again = normalizeEncodingOrder(call.ret.list)]
  /\ UNCHANGED <<router, handler, regResult, request, response>>

NextNorm == Normalize \/ NormalizeAgain

SpecNorm == InitNorm /\ [][NextNorm]_vars

\* The number of positions of a list that hold x.
Occurrences(list, x) == Cardinality({i \in 1..Len(list) : list[i] = x})

\* C14: a list normalizeEncodingOrder returns holds identity exactly once
\* and no coding twice, and normalizeEncodingOrder applied to it succeeds and
\* returns the same list.
C14_NormalizeIdempotent ==
  /\ (call.step >= 1 /\ call.ret.ok) =>
       /\ Occurrences(call.ret.list, ContentEncodingIdentity) = 1
       /\ \A x \in Range(call.ret.list) : Occurrences(call.ret.list, x) = 1
       /\ Range(call.ret.list) \subseteq Codings
  /\ call.step = 2 =>
       /\ call.again.ok
       /\ call.again.list = call.ret.list

C14_Witness ==
  /\ call.step = 2
  /\ call.encodings = <<"Identity", "x-gzip", "gzip">>
  /\ call.ret.list = <<ContentEncodingIdentity, ContentEncodingGzip>>
  /\ call.again.list = call.ret.list

\* The coding a name of a list stands for, "" when it stands for none.
CodingOf(name) ==
  LET folded == ToLower(TrimSpace(name))
  IN IF folded \in Codings THEN folded
     ELSE IF folded = "x-gzip" THEN ContentEncodingGzip
     ELSE IF folded = "x-deflate" THEN ContentEncodingDeflate
     ELSE ""

\* The elements of s at the positions of the set I, in order.
RECURSIVE KeepAt(_, _, _)
KeepAt(s, I, i) ==
  IF i > Len(s) THEN <<>>
  ELSE (IF i \in I THEN <<s[i]>> ELSE <<>>) \o KeepAt(s, I, i + 1)

\* The codings of a list in the order of their first occurrence, identity
\* appended when no name stands for it.
FirstOccurrences(list) ==
  LET codings == [i \in 1..Len(list) |-> CodingOf(list[i])]
      first == {i \in 1..Len(list) : \A j \in 1..(i - 1) : codings[j] # codings[i]}
      kept == KeepAt(codings, first, 1)
  IN IF ContentEncodingIdentity \in Range(codings) THEN kept
     ELSE Append(kept, ContentEncodingIdentity)

\* C15: normalizeEncodingOrder fails, returning no list, on the empty list
\* and on a list with an unknown name; otherwise it returns the codings of
\* the names (case folded, aliases resolved) in the order of their first
\* occurrence, a listed identity staying in its place and an unlisted one
\* appended at the end.
C15_NormalizeOrder ==
  call.step >= 1 =>
    IF call.encodings = <<>> \/ \E i \in 1..Len(call.encodings) : CodingOf(call.encodings[i]) = ""
    THEN ~call.ret.ok /\ call.ret.list = <<>>
    ELSE call.ret.ok /\ call.ret.list = FirstOccurrences(call.encodings)

C15_Witness ==
  /\ call.step >= 1
  /\ call.encodings = <<"br", "GZIP", "x-gzip">>
  /\ call.ret.ok
  /\ call.ret.list = <<ContentEncodingBrotli, ContentEncodingGzip, ContentEncodingIdentity>>


(***************************************************************************)
(* SpecParse: parseAcceptEncoding applied to headers whose tokens carry    *)
(* aliases, several parameters, and q-values in and out of range.          *)
(***************************************************************************)
\* What strconv.ParseFloat makes of the text of a parameter value: a number
\* (in tenths; -5 and 15 lie below 0 and above 1), NaN, or an error.
ParsedValues ==
  {[ok |-> TRUE, f |-> f] : f \in {0, 5, -5, 15, NaN}} \cup {[ok |-> FALSE, f |-> 0]}

ParseParams ==
  {<<>>}
    \cup {<<[key |-> "q", eq |-> TRUE, val |-> v]>> : v \in ParsedValues}
    \cup {<<[key |-> "level", eq |-> TRUE, val |-> [ok |-> TRUE, f |-> 0]]>>,
          <<[key |-> "Q", eq |-> TRUE, val |-> [ok |-> TRUE, f |-> 5]],
            [key |-> "q", eq |-> FALSE, val |-> [ok |-> FALSE, f |-> 0]]>>}

ParseParts ==
  {Part(n, ps) : n \in {"gzip", "x-gzip", "identity", "*", "foo"}, ps \in ParseParams}

ParseHeaders == SeqsUpTo(ParseParts, MaxParts) \ {<<>>}

InitParse ==
  /\ router = {}
  /\ handler = NoHandler
  /\ regResult = "none"
  /\ request = NoRequest
  /\ response = NoResponse
  /\ \E header \in ParseHeaders :
       call = [fn |-> "parseAcceptEncoding", done |-> FALSE, header |-> header,
               specs |-> parseAcceptEncoding(EmptyHeader)]

ParseAcceptEncoding ==
  /\ call.fn = "parseAcceptEncoding"
  /\ ~call.done
  /\ call' = [call EXCEPT !.done = TRUE, !.specs = parseAcceptEncoding(call.header)]
  /\ UNCHANGED <<router, handler, regResult, request, response>>

NextParse == ParseAcceptEncoding

SpecParse == InitParse /\ [][NextParse]_vars

ParseDone == call.fn = "parseAcceptEncoding" /\ call.done

\* The last token of the header that names coding e ("*" for the wildcard).
LastToken(header, name) ==
  LET named == {i \in 1..Len(header) :
                  IF name = "*" THEN ToLower(TrimSpace(header[i].name)) = "*"
                  ELSE CodingOf(header[i].name) = name}
  IN header[CHOOSE i \in named : \A j \in named : j <= i]

\* The values of the parseable q parameters of a token, in order.
ParsedQs(part) ==
  LET qs == SelectSeq(part.params,
                      LAMBDA param : /\ param.eq
                                     /\ ToLower(TrimSpace(param.key)) = "q"
                                     /\ param.val.ok)
  IN [i \in 1..Len(qs) |-> qs[i].val.f]

\* A q-value lies in [0,1].
InUnitRange(q) == q # NaN /\ 0 <= q /\ q <= 10

\* The recorded q agrees with the token: 1 without a parseable q parameter,
\* else the value of the last one, below 0 made 0 and above 1 made 1.
AgreesWithToken(q, part) ==
  LET qs == ParsedQs(part)
  IN IF qs = <<>> THEN q = 10
     ELSE LET f == qs[Len(qs)]
          IN /\ InUnitRange(f) => q = f
             /\ (f # NaN /\ f < 0) => q = 0
             /\ (f # NaN /\ f > 10) => q = 10

\* C19: parseAcceptEncoding records for a known coding, and for "*", the q
\* of the last token that names it (aliases naming the same coding): 1 when
\* the token has no parseable q parameter, else the parsed value clamped
\* into [0,1]; every recorded q lies in [0,1].
C19_RecordedQ ==
  ParseDone =>
    /\ \A e \in Codings :
         /\ e \in DOMAIN call.specs.declared <=> Declares(call.header, e)
         /\ e \in DOMAIN call.specs.declared =>
              /\ AgreesWithToken(call.specs.declared[e], LastToken(call.header, e))
              /\ InUnitRange(call.specs.declared[e])
    /\ call.specs.hasAny <=> HasWildcard(call.header)
    /\ call.specs.hasAny =>
         /\ AgreesWithToken(call.specs.wildcard, LastToken(call.header, "*"))
         /\ InUnitRange(call.specs.wildcard)

\* The statement of C19 less its range: what is recorded is the q of the
\* last token, also when that is NaN.
RecordedQIsLastTokenQ ==
  ParseDone =>
    /\ \A e \in Codings :
         /\ e \in DOMAIN call.specs.declared <=> Declares(call.header, e)
         /\ e \in DOMAIN call.specs.declared =>
              /\ AgreesWithToken(call.specs.declared[e], LastToken(call.header, e))
              /\ (call.specs.declared[e] = NaN) =
                   (ParsedQs(LastToken(call.header, e)) # <<>>
                    /\ ParsedQs(LastToken(call.header, e))
                         [Len(ParsedQs(LastToken(call.header, e)))] = NaN)
    /\ call.specs.hasAny <=> HasWildcard(call.header)
    /\ call.specs.hasAny =>
         AgreesWithToken(call.specs.wildcard, LastToken(call.header, "*"))


(***************************************************************************)
(* SpecConc: requests served concurrently by one registered handler.  Each *)
(* request runs serve in its own goroutine with its own fiber context; the *)
(* steps of serve (resolve, negotiate, write) of different requests        *)
(* interleave.  request and response are per client here, and call.ctx     *)
(* holds the local variables of each running serve.                        *)
(***************************************************************************)
Clients == {"c1", "c2"}

\* The handler the requests share.
ConcHandler ==
  RegisterEmbeddedStatic(FALSE, <<"/", "s">>, FixtureFS(MaxFileLen), "static", <<>>).handler

ConcRequests ==
  {[method |-> m, path |-> <<"/", "s">> \o rest, header |-> h] :
     m \in {"GET", "HEAD"},
     rest \in {<<"/", "r.txt">>, <<"/", "a.txt">>, <<"/", "missing">>},
     h \in {EmptyHeader, <<Part("gzip", <<>>)>>, <<Part("*", <<QParam(0)>>)>>,
            <<Part("identity", <<QParam(0)>>)>>}}

\* The locals of serve: where it stands, the resolved catalog entry (the
\* local asset refers to the variants map of the catalog), and the coding.
IdleCtx == [pc |-> "idle", params |-> <<>>, key |-> <<>>, encoding |-> ""]

InitConc ==
  /\ handler = ConcHandler
  /\ router = BoundRoutes(handler)
  /\ regResult = "ok"
  /\ request = [c \in Clients |-> NoRequest]
  /\ response = [c \in Clients |-> NoResponse]
  /\ call = [fn |-> "serve", ctx |-> [c \in Clients |-> IdleCtx]]

\* The router matches a request and calls handler.serve with a fresh context.
Arrive(c) ==
  /\ call.ctx[c].pc = "idle"
  /\ \E req \in ConcRequests :
       LET m == routeMatch(req.path, handler.prefix)
       IN /\ m.matched
          /\ [method |-> req.method, route |-> m.route] \in router
          /\ request' = [request EXCEPT ![c] = req]
          /\ call' = [call EXCEPT !.ctx[c] = [IdleCtx EXCEPT !.pc = "resolve",
                                                             !.params = m.params]]
  /\ UNCHANGED <<router, handler, regResult, response>>

\* Variant: the resolved asset is kept in a field of the handler, which all
\* running requests read.
ResolveStepShared(c) ==
  /\ call.ctx[c].pc = "resolve"
  /\ LET resolved == resolveAsset(handler, call.ctx[c].params, request[c].path)
     IN IF ~resolved.ok
        THEN /\ response' = [response EXCEPT ![c] = SendStatus(404)]
             /\ call' = [call EXCEPT !.ctx[c].pc = "done"]
        ELSE /\ call' = [call EXCEPT !.ctx =
                           [d \in Clients |->
                              [call.ctx[d] EXCEPT
                                 !.key = resolved.key,
                                 !.pc = IF d = c THEN "negotiate" ELSE @]]]
             /\ UNCHANGED response
  /\ UNCHANGED <<router, handler, regResult, request>>

\* asset, ok := h.resolveAsset(c); 404 when not found.
ResolveStep(c) ==
  /\ call.ctx[c].pc = "resolve"
  /\ LET resolved == resolveAsset(handler, call.ctx[c].params, request[c].path)
     IN IF ~resolved.ok
        THEN /\ response' = [response EXCEPT ![c] = SendStatus(404)]
             /\ call' = [call EXCEPT !.ctx[c].pc = "done"]
        ELSE /\ call' = [call EXCEPT !.ctx[c].pc = "negotiate",
                                     !.ctx[c].key = resolved.key]
             /\ UNCHANGED response
  /\ UNCHANGED <<router, handler, regResult, request>>

\* encoding, acceptable := negotiateEncoding(...); 406 when not acceptable.
NegotiateStep(c) ==
  /\ call.ctx[c].pc = "negotiate"
  /\ LET asset == handler.assets[call.ctx[c].key]
         n == negotiateEncoding(request[c].header, handler.encodings, asset.variants)
     IN IF ~n.ok
        THEN /\ response' = [response EXCEPT ![c] = SendStatus(406)]
             /\ call' = [call EXCEPT !.ctx[c].pc = "done"]
        ELSE /\ call' = [call EXCEPT !.ctx[c].pc = "write",
                                     !.ctx[c].encoding = n.encoding]
             /\ UNCHANGED response
  /\ UNCHANGED <<router, handler, regResult, request>>

\* The headers and, for GET, the body are written to the context's response.
WriteStep(c) ==
  /\ call.ctx[c].pc = "write"
  /\ LET asset == handler.assets[call.ctx[c].key]
         body == responseBody(asset, call.ctx[c].encoding)
         hdrs == [NoResponse EXCEPT
                    !.status = 200,
                    !.vary = "Accept-Encoding",
                    !.contentType = asset.contentType,
                    !.cacheControl = handler.cacheControl,
                    !.contentEncoding = contentEncodingHeader(call.ctx[c].encoding)]
     IN response' = [response EXCEPT ![c] =
                       IF request[c].method = "HEAD"
                       THEN [hdrs EXCEPT !.contentLength = Len(body)]
                       ELSE [hdrs EXCEPT !.contentLength = Len(body), !.body = body]]
  /\ call' = [call EXCEPT !.ctx[c].pc = "done"]
  /\ UNCHANGED <<router, handler, regResult, request>>

\* The server writes the response out and releases the context.
Finish(c) ==
  /\ call.ctx[c].pc = "done"
  /\ request' = [request EXCEPT ![c] = NoRequest]
  /\ response' = [response EXCEPT ![c] = NoResponse]
  /\ call' = [call EXCEPT !.ctx[c] = IdleCtx]
  /\ UNCHANGED <<router, handler, regResult>>

NextConc ==
  \E c \in Clients :
    \/ Arrive(c)
    \/ ResolveStep(c)
    \/ NegotiateStep(c)
    \/ WriteStep(c)
    \/ Finish(c)

SpecConc == InitConc /\ [][NextConc]_vars

\* The response serve gives to the request of client c when it runs alone.
ServedAlone(c) ==
  serve(handler, request[c].method, routeMatch(request[c].path, handler.prefix).params,
        request[c].path, request[c].header)

ConcDone(c) == call.ctx[c].pc = "done"

\* Every finished request has the response of a request served alone; two
\* finished requests for the same path with the same Accept-Encoding header
\* have the same status and headers, and, when of the same method, the same
\* body.
ConcResponses ==
  /\ \A c \in Clients : ConcDone(c) => response[c] = ServedAlone(c)
  /\ \A c, d \in Clients :
       ( /\ ConcDone(c) /\ ConcDone(d)
         /\ request[c].path = request[d].path
         /\ request[c].header = request[d].header ) =>
         /\ response[c].status = response[d].status
         /\ response[c].vary = response[d].vary
         /\ response[c].contentType = response[d].contentType
         /\ response[c].cacheControl = response[d].cacheControl
         /\ response[c].contentEncoding = response[d].contentEncoding
         /\ response[c].contentLength = response[d].contentLength
         /\ request[c].method = request[d].method => response[c].body = response[d].body

errChanCap == 1

\* Err() of a context: nil while it is live.
ContextErrors == {"Canceled", "DeadlineExceeded"}

RunCalls == [a : BOOLEAN, cfgCtx : {"nil"} \cup ContextErrors]

InitRun ==
  /\ router = {}
  /\ handler = NoHandler
  /\ regResult = "none"
  /\ request = NoRequest
  /\ response = NoResponse
  /\ \E inp \in RunCalls :
       call = [fn |-> "Run", a |-> inp.a, cfgCtx |-> inp.cfgCtx,
               pc |-> "start", ret |-> "none", ctx |-> "none",
               go |-> "none", errChan |-> <<>>,
               shutdownCtx |-> "none", shutdownArg |-> "none",
               shutdownErr |-> "none", listenRet |-> "none", got |-> "none",
               listens |-> 0, sends |-> 0, shutdowns |-> 0]

\* if a == nil { return ErrNilAppReceiver }; ctx, stop := signal.NotifyContext(a.cfg.ctx, ...)
RunEnter ==
  /\ call.fn = "Run"
  /\ call.pc = "start"
  /\ call' = IF ~call.a
             THEN [call EXCEPT !.pc = "returned", !.ret = "ErrNilAppReceiver"]
             ELSE [call EXCEPT !.pc = "check", !.ctx = call.cfgCtx]
  /\ UNCHANGED <<router, handler, regResult, request, response>>

\* The App's context is cancelled or passes its deadline, or SIGINT/SIGTERM
\* arrives: the notify context becomes done.
Cancel ==
  /\ call.fn = "Run"
  /\ call.pc \notin {"start", "returned"}
  /\ call.ctx = "nil"
  /\ \E err \in ContextErrors : call' = [call EXCEPT !.ctx = err]
  /\ UNCHANGED <<router, handler, regResult, request, response>>

\* Variant: the listener is started without looking at ctx.Err().
RunCheckWithoutErr ==
  /\ call.fn = "Run"
  /\ call.pc = "check"
  /\ call' = [call EXCEPT !.pc = "select", !.go = "spawned"]
  /\ UNCHANGED <<router, handler, regResult, request, response>>

\* if err := ctx.Err(); err != nil { return err }; errChan := make(chan error, 1); go func() {...}()
RunCheck ==
  /\ call.fn = "Run"
  /\ call.pc = "check"
  /\ call' = IF call.ctx # "nil"
             THEN [call EXCEPT !.pc = "returned", !.ret = call.ctx]
             ELSE [call EXCEPT !.pc = "select", !.go = "spawned"]
  /\ UNCHANGED <<router, handler, regResult, request, response>>

\* The goroutine starts: logs and calls a.cfg.app.Listen(a.cfg.addr).
GoListen ==
  /\ call.fn = "Run"
  /\ call.go = "spawned"
  /\ call' = [call EXCEPT !.go = "Listen", !.listens = @ + 1]
  /\ UNCHANGED <<router, handler, regResult, request, response>>

\* Listen returns nil or an error.
ListenReturns ==
  /\ call.fn = "Run"
  /\ call.go = "Listen"
  /\ \E err \in {"nil", "listenErr"} :
       call' = [call EXCEPT !.go = "send", !.listenRet = err]
  /\ UNCHANGED <<router, handler, regResult, request, response>>

\* Listen panics: the deferred function recovers.
ListenPanics ==
  /\ call.fn = "Run"
  /\ call.go = "Listen"
  /\ call' = [call EXCEPT !.go = "recover", !.listenRet = "panic"]
  /\ UNCHANGED <<router, handler, regResult, request, response>>

\* The value the goroutine sends: the result of Listen, or the server panic
\* error from the deferred function.
SentValue == IF call.go = "recover" THEN "panicErr" ELSE call.listenRet

\* Variant: the goroutine sends only a non-nil result of Listen.
SendOnlyErrors ==
  /\ call.fn = "Run"
  /\ call.go \in {"send", "recover"}
  /\ IF SentValue = "nil"
     THEN call' = [call EXCEPT !.go = "done"]
     ELSE /\ Len(call.errChan) < errChanCap
          /\ call' = [call EXCEPT !.errChan = Append(@, SentValue),
                                  !.sends = @ + 1, !.go = "done"]
  /\ UNCHANGED <<router, handler, regResult, request, response>>

\* errChan <- a.cfg.app.Listen(a.cfg.addr), or errChan <- fmt.Errorf("server
\* panic: %v", r); a send proceeds when the buffer has room.
Send ==
  /\ call.fn = "Run"
  /\ call.go \in {"send", "recover"}
  /\ Len(call.errChan) < errChanCap
  /\ call' = [call EXCEPT !.errChan = Append(@, SentValue),
                          !.sends = @ + 1, !.go = "done"]
  /\ UNCHANGED <<router, handler, regResult, request, response>>

\* The outer select.  case <-ctx.Done(): stop(); shutdownCtx is made from
\* context.Background() with the shutdown timeout and passed to
\* ShutdownWithContext.  case err := <-errChan: return err.  When both cases
\* are ready either is taken.
Select ==
  /\ call.fn = "Run"
  /\ call.pc = "select"
  /\ \/ /\ call.ctx # "nil"
        /\ call' = [call EXCEPT !.pc = "shutdown", !.shutdownCtx = "live",
                                !.shutdownArg = "live", !.shutdowns = @ + 1]
     \/ /\ call.errChan # <<>>
        /\ call' = [call EXCEPT !.pc = "returned", !.errChan = Tail(@),
                                !.got = Head(call.errChan),
                                !.ret = Head(call.errChan)]
  /\ UNCHANGED <<router, handler, regResult, request, response>>

\* The deadline of shutdownCtx passes.
Expire ==
  /\ call.fn = "Run"
  /\ call.pc # "returned"
  /\ call.shutdownCtx = "live"
  /\ call' = [call EXCEPT !.shutdownCtx = "expired"]
  /\ UNCHANGED <<router, handler, regResult, request, response>>

\* ShutdownWithContext returns nil or an error.
ShutdownReturns ==
  /\ call.fn = "Run"
  /\ call.pc = "shutdown"
  /\ \E err \in {"nil", "shutdownErr"} :
       call' = [call EXCEPT !.shutdownErr = err,
                            !.pc = IF err = "nil" THEN "wait" ELSE "drain"]
  /\ UNCHANGED <<router, handler, regResult, request, response>>

\* Variant: the Shutdown error is returned without looking at errChan.
DrainShutdownErrFirst ==
  /\ call.fn = "Run"
  /\ call.pc = "drain"
  /\ call' = [call EXCEPT !.pc = "returned", !.ret = call.shutdownErr]
  /\ UNCHANGED <<router, handler, regResult, request, response>>

\* Shutdown failed: select { case listenErr := <-errChan: if listenErr != nil
\* { return listenErr }; default: }; return err.
Drain ==
  /\ call.fn = "Run"
  /\ call.pc = "drain"
  /\ call' = IF call.errChan # <<>>
             THEN [call EXCEPT !.pc = "returned", !.errChan = Tail(@),
                               !.got = Head(call.errChan),
                               !.ret = IF Head(call.errChan) # "nil"
                                       THEN Head(call.errChan)
                                       ELSE call.shutdownErr]
             ELSE [call EXCEPT !.pc = "returned", !.ret = call.shutdownErr]
  /\ UNCHANGED <<router, handler, regResult, request, response>>

\* Variant: the wait is for the Listen result only.
WaitWithoutDeadline ==
  /\ call.fn = "Run"
  /\ call.pc = "wait"
  /\ call.errChan # <<>>
  /\ call' = [call EXCEPT !.pc = "returned", !.errChan = Tail(@),
                          !.got = Head(call.errChan),
                          !.ret = Head(call.errChan)]
  /\ UNCHANGED <<router, handler, regResult, request, response>>

\* Shutdown succeeded: select { case listenErr := <-errChan: if listenErr !=
\* nil { return listenErr }; case <-shutdownCtx.Done(): return timeout error };
\* return nil.  When both cases are ready either is taken.
Wait ==
  /\ call.fn = "Run"
  /\ call.pc = "wait"
  /\ \/ /\ call.errChan # <<>>
        /\ call' = [call EXCEPT !.pc = "returned", !.errChan = Tail(@),
                                !.got = Head(call.errChan),
                                !.ret = Head(call.errChan)]
     \/ /\ call.shutdownCtx = "expired"
        /\ call' = [call EXCEPT !.pc = "returned", !.ret = "timeoutErr"]
  /\ UNCHANGED <<router, handler, regResult, request, response>>

NextRun ==
  \/ RunEnter
  \/ Cancel
  \/ RunCheck
  \/ GoListen
  \/ ListenReturns
  \/ ListenPanics
  \/ Send
  \/ Select
  \/ Expire
  \/ ShutdownReturns
  \/ Drain
  \/ Wait

SpecRun == InitRun /\ [][NextRun]_vars

\* Run's own steps are scheduled, ShutdownWithContext returns (it is given
\* the deadline of shutdownCtx) and the deadline of shutdownCtx passes.
\* Nothing is assumed of Listen or of the listener goroutine.
FairRun ==
  /\ WF_vars(RunEnter)
  /\ WF_vars(RunCheck)
  /\ WF_vars(Select)
  /\ WF_vars(ShutdownReturns)
  /\ WF_vars(Drain)
  /\ WF_vars(Wait)
  /\ WF_vars(Expire)

SpecRunFair == InitRun /\ [][NextRun]_vars /\ FairRun

(***************************************************************************)
(* Claims about App.Run.                                                   *)
(***************************************************************************)
RunReturned == call.pc = "returned"

\* Run is blocked in the outer select and its context is done.
CancelledWhileWaiting == call.pc = "select" /\ call.ctx # "nil"

\* ShutdownWithContext is called at most once, exactly once on the
\* ctx.Done() case, with a context that is live when it is passed although
\* the notify context is done.
ShutdownCalledOnce ==
  /\ call.shutdowns <= 1
  /\ call.pc \in {"shutdown", "drain", "wait"} =>
       /\ call.shutdowns = 1
       /\ call.shutdownArg = "live"
       /\ call.ctx # "nil"

\* A step that ends the wait after a successful Shutdown.
WaitEnds == call.pc = "wait" /\ call'.pc = "returned"

\* The wait ends only on a Listen result or on the deadline; when the
\* deadline has passed without a Listen result Run returns the timeout
\* error, and when the nil result of Listen is there before the deadline
\* Run returns nil.  (When the result and the deadline are both there the
\* select takes either case.)
WaitsForResultOrDeadline ==
  WaitEnds =>
    /\ call.errChan # <<>> \/ call.shutdownCtx = "expired"
    /\ call.errChan = <<>> => call'.ret = "timeoutErr"
    /\ (call.errChan = <<"nil">> /\ call.shutdownCtx = "live") => call'.ret = "nil"

\* What Run has returned after a successful Shutdown.
ReturnedAfterShutdown ==
  (RunReturned /\ call.shutdownErr = "nil") =>
    /\ call.got = "nil" => call.ret = "nil"
    /\ call.got = "none" => call.ret = "timeoutErr" /\ call.shutdownCtx = "expired"

C22_DoneContextReturnsErr ==
  (call.a /\ call.cfgCtx # "nil") =>
    /\ call.pc \in {"start", "check", "returned"}
    /\ call.go = "none"
    /\ call.listens = 0
    /\ call.shutdowns = 0
    /\ call.sends = 0
    /\ RunReturned => call.ret = call.cfgCtx

C22_Witness ==
  /\ RunReturned
  /\ call.a
  /\ call.cfgCtx = "Canceled"
  /\ call.ret = "Canceled"
  /\ call.go = "none"

\* The listener goroutine has the outcome of Listen and has not sent yet.
ListenerAboutToSend == call.go \in {"send", "recover"}

\* The value that belongs to the outcome of Listen.
ListenResult == IF call.listenRet = "panic" THEN "panicErr" ELSE call.listenRet

\* One call of Listen, no send before its outcome, one send after it.
ListenerSendsOnce ==
  /\ call.listens <= 1
  /\ call.sends <= 1
  /\ call.go = "done" => call.sends = 1
  /\ call.go # "done" => call.sends = 0

\* What is in errChan, and what Run got from it, is the result of Listen.
SentIsListenResult ==
  /\ call.errChan # <<>> => call.errChan = <<ListenResult>>
  /\ call.got # "none" => call.got = ListenResult

\* The send can proceed: errChan has room.
SendNeverBlocks == ListenerAboutToSend => Len(call.errChan) < errChanCap

\* The listener goroutine is scheduled.
SpecListenerFair == InitRun /\ [][NextRun]_vars /\ WF_vars(Send)

\* C26: the listener goroutine sends exactly once on errChan, the result of
\* Listen or the server panic error; the send never finds errChan full,
\* wherever Run is, also after Run has returned without receiving; so the
\* goroutine ends once Listen has returned or panicked.
C26_ListenerSendsOnceWithoutBlocking ==
  /\ []ListenerSendsOnce
  /\ []SentIsListenResult
  /\ []SendNeverBlocks
  /\ ListenerAboutToSend ~> (call.go = "done")

\* Run returned the timeout error without receiving, and the listener sent
\* its result afterwards and ended.
C26_Witness ==
  /\ RunReturned
  /\ call.ret = "timeoutErr"
  /\ call.got = "none"
  /\ call.go = "done"
  /\ call.sends = 1
  /\ call.errChan = <<"listenErr">>

\* The non-nil errors a Listen outcome puts on errChan.
ListenErrors == {"listenErr", "panicErr"}

\* Run returns nil only after getting the nil result of Listen; after a
\* Listen error or panic, and after a failed Shutdown, what Run has
\* returned is not nil; a Listen error Run got is the error it returned.
NilOnlyAfterListenNil ==
  RunReturned =>
    /\ call.ret = "nil" => call.listenRet = "nil" /\ call.got = "nil"
    /\ call.listenRet \in {"listenErr", "panic"} => call.ret # "nil"
    /\ call.shutdownErr = "shutdownErr" => call.ret # "nil"
    /\ call.got \in ListenErrors => call.ret = call.got
    /\ call.ret # "none"

\* After a failed Shutdown a Listen error that is in errChan is returned,
\* not the Shutdown error; the errChan case of the outer select returns
\* the Listen error as well.
ListenErrorBeforeShutdownErr ==
  ( /\ call.pc \in {"select", "drain"}
    /\ call'.pc = "returned"
    /\ call.errChan # <<>>
    /\ Head(call.errChan) \in ListenErrors ) =>
  call'.ret = Head(call.errChan)

\* C27: Run returns nil only if Listen returned nil before; when Listen
\* returns an error or panics Run returns a non-nil error in every
\* interleaving; a Listen error that is ready together with the
\* cancellation is the error returned, before a Shutdown error; a failed
\* ShutdownWithContext makes Run return a non-nil error.
C27_NilOnlyWhenListenNil ==
  /\ []NilOnlyAfterListenNil
  /\ [][ListenErrorBeforeShutdownErr]_vars

\* Cancellation and the Listen error were both there, Shutdown failed, and
\* Run returned the Listen error.
C27_Witness ==
  /\ RunReturned
  /\ call.ctx # "nil"
  /\ call.shutdownErr = "shutdownErr"
  /\ call.listenRet = "listenErr"
  /\ call.got = "listenErr"
  /\ call.ret = "listenErr"

(***************************************************************************)
(* The controller: NewApp.  A Config is [app, logger, ctx, addr,           *)
(* shutdownTimeout]; app, logger and ctx are FALSE when nil, addr is a     *)
(* string of atoms and shutdownTimeout a whole number of time units.       *)
(***************************************************************************)
NoApp == [nil |-> TRUE]

\* Variant: the shutdown timeout is checked before the address.
NewAppTimeoutBeforeAddr(config) ==
  IF ~config.app THEN [app |-> NoApp, err |-> "ErrNilApp"]
  ELSE IF ~config.logger THEN [app |-> NoApp, err |-> "ErrNilLogger"]
  ELSE IF ~config.ctx THEN [app |-> NoApp, err |-> "ErrNilContext"]
  ELSE IF config.shutdownTimeout <= 0
  THEN [app |-> NoApp, err |-> "ErrInvalidTimeout"]
  ELSE LET addr == TrimSpaceStr(config.addr)
       IN IF addr = <<>> THEN [app |-> NoApp, err |-> "ErrEmptyAddr"]
          ELSE [app |-> [nil |-> FALSE, cfg |-> [config EXCEPT !.addr = addr]],
                err |-> "nil"]

\* NewApp: the checks in their order, the address trimmed before its check.
NewApp(config) ==
  IF ~config.app THEN [app |-> NoApp, err |-> "ErrNilApp"]
  ELSE IF ~config.logger THEN [app |-> NoApp, err |-> "ErrNilLogger"]
  ELSE IF ~config.ctx THEN [app |-> NoApp, err |-> "ErrNilContext"]
  ELSE LET addr == TrimSpaceStr(config.addr)
       IN IF addr = <<>> THEN [app |-> NoApp, err |-> "ErrEmptyAddr"]
          ELSE IF config.shutdownTimeout <= 0
          THEN [app |-> NoApp, err |-> "ErrInvalidTimeout"]
          ELSE [app |-> [nil |-> FALSE, cfg |-> [config EXCEPT !.addr = addr]],
                err |-> "nil"]

AddrAtoms == {" ", ":", "8080"}

Addrs == SeqsUpTo(AddrAtoms, MaxEncLen + 1)

Configs ==
  [app : BOOLEAN, logger : BOOLEAN, ctx : BOOLEAN, addr : Addrs,
   shutdownTimeout : {-1, 0, 1}]

NoAppResult == [app |-> NoApp, err |-> "none"]

InitApp ==
  /\ router = {}
  /\ handler = NoHandler
  /\ regResult = "none"
  /\ request = NoRequest
  /\ response = NoResponse
  /\ \E config \in Configs :
       call = [fn |-> "NewApp", config |-> config, done |-> FALSE,
               ret |-> NoAppResult]

NewAppCall ==
  /\ call.fn = "NewApp"
  /\ ~call.done
  /\ call' = [call EXCEPT !.done = TRUE, !.ret = NewApp(call.config)]
  /\ UNCHANGED <<router, handler, regResult, request, response>>

NextApp == NewAppCall

SpecApp == InitApp /\ [][NextApp]_vars

\* The address is empty after trimming: it has nothing but whitespace.
BlankAddr(addr) == \A i \in 1..Len(addr) : addr[i] = " "

\* The sentinel errors of the checks that fail for a Config, in the order
\* nil app, nil logger, nil context, empty address, invalid timeout.
FailingChecks(config) ==
  SelectSeq(<<"ErrNilApp", "ErrNilLogger", "ErrNilContext", "ErrEmptyAddr",
              "ErrInvalidTimeout">>,
            LAMBDA e :
              \/ e = "ErrNilApp" /\ ~config.app
              \/ e = "ErrNilLogger" /\ ~config.logger
              \/ e = "ErrNilContext" /\ ~config.ctx
              \/ e = "ErrEmptyAddr" /\ BlankAddr(config.addr)
              \/ e = "ErrInvalidTimeout" /\ config.shutdownTimeout <= 0)

\* C23: NewApp returns a nil App with the sentinel error of the first
\* failing check, in the order nil fiber app, nil logger, nil context,
\* address empty after trimming, shutdown timeout zero or negative; it
\* returns a non-nil App and a nil error exactly when no check fails.
C23_NewAppFirstFailingCheck ==
  call.fn = "NewApp" /\ call.done =>
    LET failing == FailingChecks(call.config)
    IN /\ failing # <<>> => call.ret.err = failing[1] /\ call.ret.app.nil
       /\ failing = <<>> => call.ret.err = "nil" /\ ~call.ret.app.nil
       /\ call.ret.err = "nil" <=> ~call.ret.app.nil

\* An address of spaces only together with a zero timeout: ErrEmptyAddr.
C23_Witness ==
  /\ call.fn = "NewApp"
  /\ call.done
  /\ call.config.addr = <<" ", " ">>
  /\ call.config.shutdownTimeout = 0
  /\ call.ret.err = "ErrEmptyAddr"
  /\ call.ret.app.nil

(***************************************************************************)
(* C24 on SpecNeg: what negotiateEncoding returns is acceptable.           *)
(***************************************************************************)
\* negotiateEncoding returned a coding.
ReturnedCoding == NegDone /\ call.ret.ok

\* C24: a coding negotiateEncoding returns has a stored variant and a
\* strictly positive q under the header, for every header, server order
\* and variant set; a coding of q = 0 is never returned.
C24_ReturnedCodingAcceptable ==
  ReturnedCoding =>
    /\ call.ret.encoding \in DOMAIN call.variants
    /\ Positive(call.q[call.ret.encoding])

\* The statement of C24 holds of every header none of whose q-values is
\* NaN, and a coding of q = 0 is never returned, NaN or not.
ReturnedCodingAcceptableWithoutNaN ==
  ReturnedCoding =>
    /\ call.ret.encoding \in DOMAIN call.variants
    /\ ~FEq(call.q[call.ret.encoding], 0)
    /\ (\A e \in Codings : call.q[e] # NaN) => Positive(call.q[call.ret.encoding])

(***************************************************************************)
(* C25 on SpecPath: the form of the keys.                                  *)
(***************************************************************************)
\* A key starts with "/", has no backslash and no "." or ".." element.
CanonicalKey(key) ==
  /\ Len(key) >= 1
  /\ key[1] = "/"
  /\ "\\" \notin Range(key)
  /\ LET elems == splitSlash(Tail(key), 1, <<>>)
     IN \A i \in 1..Len(elems) : elems[i] \notin {<<".">>, <<".", ".">>}

\* The request path with what follows the prefix translated and cleaned.
CleanedRequestPath ==
  LET base == IF handler.prefix = <<"/">> THEN <<>> ELSE handler.prefix
      rest == TrimPrefix(call.path, base)
  IN base \o pathClean(<<"/">> \o filepathToURLPath(rest))

\* The keys resolveAsset looked up have the canonical form.
LookupsCanonical ==
  \A i \in 1..Len(call.ret.lookups) : CanonicalKey(call.ret.lookups[i])

\* The catalog keys have the canonical form; the cleaned form of the
\* request path is routed to the handler and resolves as the path does;
\* the asset returned is one of the catalog, under a key that was looked up.
ResolvesWithinCatalog ==
  /\ \A key \in DOMAIN handler.assets : CanonicalKey(key)
  /\ LET match == routeMatch(CleanedRequestPath, handler.prefix)
         cleaned == resolveAsset(handler, match.params, CleanedRequestPath)
     IN /\ match.matched
        /\ cleaned.ok = call.ret.ok
        /\ cleaned.key = call.ret.key
  /\ call.ret.ok =>
       /\ call.ret.key \in DOMAIN handler.assets
       /\ call.ret.key \in Range(call.ret.lookups)

\* C25: for every request path each key resolveAsset looks up starts with
\* "/", has forward slashes only and no "." or ".." element; the catalog
\* keys have the same form; a path and its cleaned form resolve to the same
\* asset, and only keys of the catalog are served.
C25_KeysCanonical == PathDone => LookupsCanonical /\ ResolvesWithinCatalog

\* The statement of C25 holds of every key that is not made from an index
\* file with a backslash.
KeysCanonicalWithoutBackslashIndex ==
  PathDone =>
    /\ ResolvesWithinCatalog
    /\ "\\" \notin Range(handler.indexFile) => LookupsCanonical
    /\ CanonicalKey(call.ret.lookups[1]) \/ call.ret.lookups[1] = IndexKey


====
